---- MODULE Spec2Model ----
(***************************************************************************)
(* The resumable upload handler of OMERO.biomero (TUS 1.0.0):              *)
(* omero_biomero/tus_views.py.  One action per HTTP verb handler of        *)
(* TusUploadView; a handler runs from its first line to its response in    *)
(* one step.  The state is what the handlers keep on disk: the metadata    *)
(* records, the byte stores and the destination tree.  A response is a     *)
(* value computed from the state the request finds.                        *)
(*                                                                         *)
(* Spec      requests that do not overlap, file operations that succeed    *)
(* SpecDup   one owner, one file name, uploads past the suffix limit       *)
(* SpecRace  finalizations of different uploads that overlap               *)
(* SpecFault file operations that raise                                    *)
(* SpecMeta  creations whose Upload-Metadata header is parsed character    *)
(*           by character                                                  *)
(* SpecImporter  import_selected and group_mappings of the importer        *)
(* SpecSteps    one request at a time, file operation by file operation    *)
(* SpecOverlap  requests on one upload that overlap                        *)
(***************************************************************************)
EXTENDS Integers, Sequences, FiniteSets, TLC

(***************************************************************************)
(* Bounds of the model.                                                    *)
(***************************************************************************)
\* number of uploads created in one behaviour
MaxIds == 1
\* largest declared Upload-Length
MaxLen == 2
\* largest PATCH body, in bytes
MaxBody == 1
\* largest byte store the model lets a PATCH grow
MaxStore == 2
\* number of files that failed moves leave in the destination
MaxLeft == 1
\* the safety limit of the duplicate-suffix loop; 1000 in the source
\* (tus_views.py:374), scaled down so that the limit can be reached
SuffixLimit == 2
\* largest number of items and of destinations of one import request
MaxItems == 2
MaxDests == 2
\* largest number of upload orders in the log of the ingest tracker
MaxOrders == 4
\* number of PATCH and DELETE requests that are followed step by step, and
\* how many requests run at a time when they overlap
MaxReqs == 3
MaxFlight == 2
\* longest value of a pair of the Upload-Metadata header, in characters
MaxVal == 2

Bytes == {"x", "y"}
\* user ids; 0 is the OMERO root user
Users == {0, 1}

(***************************************************************************)
(* Python values.                                                          *)
(***************************************************************************)
PyNone == [none |-> TRUE]
PyInt(n) == [int |-> n]
UserIds == {PyInt(u) : u \in Users}

\* bool(v) for None and integers
Truthy(v) == v # PyNone /\ v # PyInt(0)
\* str(v) for None and integers
Str(v) == IF v = PyNone THEN "None" ELSE ToString(v.int)

\* a request header is absent (<<>>) or carries one string (<<s>>)
NoHdr == <<>>
Hdr(s) == <<s>>
IntRange == (0 - 1) .. MaxLen
IntStrings == {ToString(n) : n \in IntRange}
\* int(s) succeeds
IsIntString(s) == s \in IntStrings
\* int(s)
ParseInt(s) == CHOOSE n \in IntRange : ToString(n) = s

Bodies == UNION {[1..n -> Bytes] : n \in 0..MaxBody}

(***************************************************************************)
(* Sessions: request.session as the handler reads it.                      *)
(***************************************************************************)
Absent == [absent |-> TRUE]
\* the connector as OMERO.web stores it (a dict, or an object with user_id)
Connector(v) == [user_id |-> v]
Session(c, u, a) == [connector |-> c, user_id |-> u, auth_user_id |-> a]
\* one session without a connector, one that resolves to no user id, and
\* one for each way _get_user_id finds an id
Sessions ==
    {Session(Absent, PyInt(1), PyNone),
     Session(Connector(PyNone), PyNone, PyNone),
     Session(Connector(PyNone), PyInt(1), PyNone),
     Session(Connector(PyInt(0)), PyNone, PyNone),
     Session(Connector(PyNone), PyNone, PyInt(0))}

\* mutant of CheckAuth: a session that carries a user id passes as well
CheckAuthByUserId(s) == s.connector # Absent \/ s.user_id # PyNone
\* _check_auth: TRUE when the request passes
CheckAuth(s) == s.connector # Absent

\* _get_user_id
GetUserId(s) ==
    IF s.user_id # PyNone THEN s.user_id
    ELSE IF s.connector # Absent /\ s.connector.user_id # PyNone
         THEN s.connector.user_id
    ELSE s.auth_user_id

\* mutant of CheckOwnership: a record without owner is compared as well
CheckOwnershipStrict(s, m) == Str(m.user_id) = Str(GetUserId(s))
\* _check_ownership: TRUE when the request passes
CheckOwnership(s, m) ==
    ~(Truthy(m.user_id) /\ Str(m.user_id) # Str(GetUserId(s)))

(***************************************************************************)
(* File names and paths.  A declared file name is held split the way       *)
(* os.path.split and os.path.splitext split it: the directory part (a      *)
(* sequence of components, absolute or relative), the stem and the         *)
(* extension of the last component.  A path is the sequence of the         *)
(* components of a normalised absolute path.                               *)
(***************************************************************************)
FileName(abs, dir, stem, ext) == [abs |-> abs, dir |-> dir, stem |-> stem, ext |-> ext]
PlainA == FileName(FALSE, <<>>, "a", ".tif")
AbsA == FileName(TRUE, <<"tmp">>, "a", ".tif")
\* "../user_1/a.tif": a relative name that leaves the directory it is joined to
UpA == FileName(FALSE, <<"..", "user_1">>, "a", ".tif")
Placeholder == FileName(FALSE, <<>>, "unknown", "")
FileNames == {PlainA, AbsA, UpA}

\* the Upload-Metadata header, as far as the file name goes: no filename
\* key, a bare filename key, or filename with a base64 value
MdNone == [kind |-> "none"]
MdBare == [kind |-> "bare"]
MdName(f) == [kind |-> "name", name |-> f]
Metadatas == {MdNone, MdBare} \cup {MdName(f) : f \in FileNames}

\* metadata.get("filename", "unknown") on the parsed header
FilenameOf(md) ==
    IF md.kind = "none" THEN Placeholder
    ELSE IF md.kind = "bare" THEN PyNone
    ELSE md.name

\* TUS_DESTINATION_DIR
DestRoot == <<"dest">>
TmpDir == <<"tmp">>
RECURSIVE Normalise(_)
\* resolution of ".." components
Normalise(p) ==
    IF p = <<>> THEN <<>>
    ELSE LET q == Normalise(SubSeq(p, 1, Len(p) - 1))
             c == p[Len(p)]
         IN IF c = ".." THEN (IF q = <<>> THEN <<>> ELSE SubSeq(q, 1, Len(q) - 1))
            ELSE Append(q, c)
\* os.path.join(base, name) for the file name f with last component last
JoinPath(base, f, last) ==
    Append(IF f.abs THEN Normalise(f.dir) ELSE Normalise(base \o f.dir), last)
Parent(p) == SubSeq(p, 1, Len(p) - 1)
InDestTree(p) == Len(p) > Len(DestRoot) /\ SubSeq(p, 1, Len(DestRoot)) = DestRoot

VARIABLES
    meta,    \* resource id -> the record in <id>.meta
    chunk,   \* resource id -> the bytes of the byte store TUS_UPLOAD_DIR/<id>
    files,   \* path -> the bytes of a file outside TUS_UPLOAD_DIR
    dirs,    \* the directories that exist
    nextId,  \* the resource ids below nextId have been handed out
    sent,    \* history: resource id -> the bodies answered 204, concatenated
    ended,   \* history: resource id -> how the upload ended
    done,    \* history: the finalized uploads in the order of their moves
    moving   \* resource id -> dest_path of the request that is inside
             \* _finalize_upload, between the suffix loop and os.rename
VARIABLES
    orders,    \* the upload orders create_upload_order has logged
    mappings,  \* view -> the content of its group mappings file, or Absent
    posted     \* history: view -> the mappings of the last POST answered 200
VARIABLES
    reqs       \* the requests that run step by step, in the order they
               \* started: where each one is and what it holds
tusVars == <<meta, chunk, files, dirs, nextId, sent, ended, done, moving, reqs>>
vars == <<meta, chunk, files, dirs, nextId, sent, ended, done, moving,
          orders, mappings, posted, reqs>>
\* the importer before its first request
InitImporter ==
    /\ orders = <<>>
    /\ mappings = [v \in {"importer_views", "group_mappings_views"} |-> Absent]
    /\ posted = [v \in {"importer_views", "group_mappings_views"} |-> Absent]

Ids == 1..MaxIds
\* no resource id in the URL
NoId == 0

\* The destination tree outlives the process (ensure_directories and the
\* mkdir of _finalize_upload pass exist_ok): the service starts on an empty
\* disk or on one where user 1 already has a.tif, a_1.tif, ... from earlier
\* runs.
OldFile(k) ==
    <<"dest", "user_1", IF k = 0 THEN "a.tif" ELSE "a_" \o ToString(k) \o ".tif">>
OldTree(n) == [p \in {OldFile(k) : k \in 0 .. (n - 1)} |-> <<"x">>]
OldDirs(n) == IF n = 0 THEN {} ELSE {DestRoot, <<"dest", "user_1">>}
MaxOld == SuffixLimit + 1

Init ==
    /\ meta = <<>>
    /\ chunk = <<>>
    /\ \E n \in 0 .. MaxOld :
           /\ files = OldTree(n)
           /\ dirs = {<<>>, TmpDir} \cup OldDirs(n)
    /\ nextId = 1
    /\ sent = <<>>
    /\ ended = <<>>
    /\ done = <<>>
    /\ moving = <<>>
    /\ InitImporter
    /\ reqs = <<>>

\* the state as one value, and the step to the state r
Cur ==
    [meta |-> meta, chunk |-> chunk, files |-> files, dirs |-> dirs,
     nextId |-> nextId, sent |-> sent, ended |-> ended, done |-> done,
     moving |-> moving]
StepTo(r) ==
    /\ meta' = r.meta
    /\ chunk' = r.chunk
    /\ files' = r.files
    /\ dirs' = r.dirs
    /\ nextId' = r.nextId
    /\ sent' = r.sent
    /\ ended' = r.ended
    /\ done' = r.done
    /\ moving' = r.moving
    /\ UNCHANGED <<orders, mappings, posted, reqs>>

(***************************************************************************)
(* The metadata store and the byte store.                                  *)
(***************************************************************************)
\* a function without the key k
Without(f, k) == [x \in DOMAIN f \ {k} |-> f[x]]
\* a function with the key k set to v
With(f, k, v) == (k :> v) @@ Without(f, k)

\* load_metadata: the record, or None
LoadMetadata(id) == IF id \in DOMAIN meta THEN meta[id] ELSE PyNone
\* save_metadata
SaveMetadata(store, id, m) == With(store, id, m)
\* mutant of DeleteMetadata: the record file is left in place
DeleteMetadataLeaves(store, id) == store
\* delete_metadata
DeleteMetadata(store, id) == Without(store, id)
\* ensure_directories
EnsureDirectories(ds) == ds \cup {DestRoot}

\* an HttpResponse
Response(status, headers) == [status |-> status, headers |-> headers]
NoHeaders == <<>>
TusResumable == "Tus-Resumable" :> "1.0.0"

(***************************************************************************)
(* _finalize_upload.                                                       *)
(***************************************************************************)
\* os.path.exists
PathExists(p, fs, ds) == p \in DOMAIN fs \/ p \in ds
\* user_dest_dir
UserDestDir(m) == Append(DestRoot, "user_" \o Str(m.user_id))
\* mutant of Candidate: the counter is left out of the name
CandidateUnnumbered(m, k) ==
    JoinPath(UserDestDir(m), m.filename, m.filename.stem \o m.filename.ext)
\* the candidate with counter k: filename itself for k = 0, else
\* f"{base}_{counter}{ext}"
Candidate(m, k) ==
    JoinPath(UserDestDir(m), m.filename,
             IF k = 0 THEN m.filename.stem \o m.filename.ext
             ELSE m.filename.stem \o "_" \o ToString(k) \o m.filename.ext)
RECURSIVE SuffixLoop(_, _, _, _, _)
\* mutant of SuffixLoop: past the limit the loop keeps the path it tested
\* last
SuffixLoopKeepsTested(m, dest, counter, fs, ds) ==
    IF ~PathExists(dest, fs, ds) THEN dest
    ELSE IF counter + 1 > SuffixLimit THEN dest
    ELSE SuffixLoop(m, Candidate(m, counter), counter + 1, fs, ds)
\* the while loop: dest_path and counter at the loop head
SuffixLoop(m, dest, counter, fs, ds) ==
    IF ~PathExists(dest, fs, ds) THEN dest
    ELSE IF counter + 1 > SuffixLimit THEN Candidate(m, counter)
    ELSE SuffixLoop(m, Candidate(m, counter), counter + 1, fs, ds)
\* dest_path after the loop
DestPath(m, fs, ds) == SuffixLoop(m, Candidate(m, 0), 1, fs, ds)
\* the directories after the two mkdir calls
FinalizeDirs(m, ds) == EnsureDirectories(ds) \cup {UserDestDir(m)}
\* _finalize_upload raises: os.path.join on a None filename (TypeError), or
\* os.rename and the shutil.copy2 fallback both fail (no byte store, or no
\* directory to hold dest_path)
FinalizeRaises(id, m, ch, fs, ds) ==
    \/ m.filename = PyNone
    \/ id \notin DOMAIN ch
    \/ Parent(DestPath(m, fs, FinalizeDirs(m, ds))) \notin FinalizeDirs(m, ds)
\* the destination files after the move
FinalizeFiles(id, m, ch, fs, ds) ==
    With(fs, DestPath(m, fs, FinalizeDirs(m, ds)), ch[id])
\* history: what a finalization moved, for whom and under which name
Moved(id, m, content) ==
    [id |-> id, user_id |-> m.user_id, filename |-> m.filename, content |-> content]

(***************************************************************************)
(* The handlers.  For each handler, XxxStatus is the status of its         *)
(* response, XxxResponse the response and XxxResult the state it leaves,   *)
(* all from the state the request finds.                                   *)
(***************************************************************************)
\* the headers every handler puts on a 401; the other error responses
\* carry none
ErrorResponse(status) ==
    Response(status, IF status = 401 THEN TusResumable ELSE NoHeaders)

\* TusUploadView.options
OptionsResponse ==
    Response(204, TusResumable @@ ("Tus-Version" :> "1.0.0")
                  @@ ("Tus-Extension" :> "creation,termination")
                  @@ ("Tus-Max-Size" :> "53687091200"))
\* mutant of OptionsResult: options calls ensure_directories as post does
OptionsResultEnsuring == [Cur EXCEPT !.dirs = EnsureDirectories(dirs)]
OptionsResult == Cur

\* mutant of NewMeta: the file name of the header is not looked at
NewMetaUnnamed(s, length, md, id) ==
    [length |-> length, offset |-> 0, filename |-> Placeholder,
     metadata |-> md, chunk_path |-> id, user_id |-> GetUserId(s)]
\* the record post writes
NewMeta(s, length, md, id) ==
    [length |-> length, offset |-> 0, filename |-> FilenameOf(md),
     metadata |-> md, chunk_path |-> id, user_id |-> GetUserId(s)]

\* post: the status of the response; h is the Upload-Length header
PostStatus(s, h) ==
    IF ~CheckAuth(s) THEN 401
    ELSE IF h = NoHdr \/ h[1] = "" THEN 400
    ELSE IF ~IsIntString(h[1]) THEN 400
    ELSE 201
PostResponse(s, h) ==
    IF PostStatus(s, h) # 201 THEN ErrorResponse(PostStatus(s, h))
    ELSE Response(201, TusResumable @@ ("Location" :> ToString(nextId)))
\* mutant of PostResult: the identifier of an upload that has ended is
\* handed out again
PostResultReusing(s, h, md) ==
    IF PostStatus(s, h) = 401 THEN Cur
    ELSE IF PostStatus(s, h) = 400
    THEN [Cur EXCEPT !.dirs = EnsureDirectories(dirs)]
    ELSE LET id == IF DOMAIN ended = {} THEN nextId
                   ELSE CHOOSE i \in DOMAIN ended : TRUE
         IN [Cur EXCEPT !.dirs = EnsureDirectories(dirs),
                        !.chunk = With(chunk, id, <<>>),
                        !.meta = SaveMetadata(meta, id,
                                              NewMeta(s, ParseInt(h[1]), md, id)),
                        !.sent = With(sent, id, <<>>),
                        !.nextId = nextId + 1]
\* mutant of PostResult: the byte store is created before the Upload-Length
\* header is looked at
PostResultEager(s, h, md) ==
    IF PostStatus(s, h) = 401 THEN Cur
    ELSE IF PostStatus(s, h) = 400
    THEN [Cur EXCEPT !.dirs = EnsureDirectories(dirs),
                     !.chunk = With(chunk, nextId, <<>>)]
    ELSE [Cur EXCEPT !.dirs = EnsureDirectories(dirs),
                     !.chunk = With(chunk, nextId, <<>>),
                     !.meta = SaveMetadata(meta, nextId,
                                           NewMeta(s, ParseInt(h[1]), md, nextId)),
                     !.sent = With(sent, nextId, <<>>),
                     !.nextId = nextId + 1]
\* TusUploadView.post; md is the Upload-Metadata header
PostResult(s, h, md) ==
    IF PostStatus(s, h) = 401 THEN Cur
    ELSE IF PostStatus(s, h) = 400
    THEN [Cur EXCEPT !.dirs = EnsureDirectories(dirs)]
    ELSE [Cur EXCEPT !.dirs = EnsureDirectories(dirs),
                     !.chunk = With(chunk, nextId, <<>>),
                     !.meta = SaveMetadata(meta, nextId,
                                           NewMeta(s, ParseInt(h[1]), md, nextId)),
                     !.sent = With(sent, nextId, <<>>),
                     !.nextId = nextId + 1]

\* the checks head, patch and delete start with: the status of the error
\* response, or 0 when the request passes them
Precheck(s, id) ==
    IF ~CheckAuth(s) THEN 401
    ELSE IF id = NoId THEN 400
    ELSE IF LoadMetadata(id) = PyNone THEN 404
    ELSE IF ~CheckOwnership(s, LoadMetadata(id)) THEN 403
    ELSE 0

\* mutant of HeadStatus: an identifier without a record is answered 200
HeadStatusLenient(s, id) ==
    IF Precheck(s, id) = 404 THEN 200
    ELSE IF Precheck(s, id) # 0 THEN Precheck(s, id)
    ELSE 200
\* TusUploadView.head
HeadStatus(s, id) == IF Precheck(s, id) # 0 THEN Precheck(s, id) ELSE 200
\* mutant of HeadResponse: Upload-Offset carries the length
HeadResponseOfLength(s, id) ==
    IF HeadStatus(s, id) # 200 THEN ErrorResponse(HeadStatus(s, id))
    ELSE Response(200, TusResumable
                       @@ ("Upload-Offset" :> ToString(meta[id].length))
                       @@ ("Upload-Length" :> ToString(meta[id].length)))
HeadResponse(s, id) ==
    IF HeadStatus(s, id) # 200 THEN ErrorResponse(HeadStatus(s, id))
    ELSE Response(200, TusResumable
                       @@ ("Upload-Offset" :> ToString(meta[id].offset))
                       @@ ("Upload-Length" :> ToString(meta[id].length)))
HeadResult(s, id) == Cur

\* mutant of OffsetCheck: only a claimed offset beyond the recorded one is
\* a conflict
OffsetCheckBeyond(h, m) ==
    IF h = NoHdr THEN 400
    ELSE IF ~IsIntString(h[1]) THEN 400
    ELSE IF ParseInt(h[1]) > m.offset THEN 409
    ELSE 0
\* mutant of OffsetCheck: a missing header counts as offset 0
OffsetCheckDefaultZero(h, m) ==
    IF h = NoHdr THEN (IF m.offset # 0 THEN 409 ELSE 0)
    ELSE IF ~IsIntString(h[1]) THEN 400
    ELSE IF ParseInt(h[1]) # m.offset THEN 409
    ELSE 0
\* the offset check of patch: the status of the error response, or 0
OffsetCheck(h, m) ==
    IF h = NoHdr THEN 400
    ELSE IF ~IsIntString(h[1]) THEN 400
    ELSE IF ParseInt(h[1]) # m.offset THEN 409
    ELSE 0

\* mutant of AppendChunk: the byte store is opened "wb", not "ab"
AppendChunkTruncating(ch, id, body) == With(ch, id, body)
\* the byte store after the streaming loop of patch
AppendChunk(ch, id, body) == With(ch, id, ch[id] \o body)
\* mutant of NewOffset: the recorded offset is not added
NewOffsetOfBody(m, body) == Len(body)
\* new_offset
NewOffset(m, body) == m.offset + Len(body)
\* mutant of PatchedMeta: the file name is reset as well
PatchedMetaRenamed(m, body) ==
    [m EXCEPT !.offset = NewOffset(m, body), !.filename = Placeholder]
\* the record patch saves
PatchedMeta(m, body) == [m EXCEPT !.offset = NewOffset(m, body)]
\* patch calls _finalize_upload
Completes(m) == m.offset >= m.length

\* patch: the status of the response; h is the Upload-Offset header
PatchStatus(s, id, h, body) ==
    IF Precheck(s, id) # 0 THEN Precheck(s, id)
    ELSE IF OffsetCheck(h, meta[id]) # 0 THEN OffsetCheck(h, meta[id])
    ELSE IF /\ Completes(PatchedMeta(meta[id], body))
            /\ FinalizeRaises(id, PatchedMeta(meta[id], body),
                              AppendChunk(chunk, id, body), files, dirs)
         THEN 500
    ELSE 204
PatchResponse(s, id, h, body) ==
    IF PatchStatus(s, id, h, body) # 204
    THEN ErrorResponse(PatchStatus(s, id, h, body))
    ELSE Response(204, TusResumable
                       @@ ("Upload-Offset" :> ToString(NewOffset(meta[id], body))))
\* TusUploadView.patch
PatchResult(s, id, h, body) ==
    IF PatchStatus(s, id, h, body) \notin {204, 500} THEN Cur
    ELSE LET ch == AppendChunk(chunk, id, body)
             m == PatchedMeta(meta[id], body)
             saved == SaveMetadata(meta, id, m)
         IN IF ~Completes(m)
            THEN [Cur EXCEPT !.chunk = ch, !.meta = saved,
                             !.sent = With(sent, id, sent[id] \o body)]
            ELSE IF FinalizeRaises(id, m, ch, files, dirs)
            THEN [Cur EXCEPT !.chunk = ch, !.meta = saved,
                             !.dirs = FinalizeDirs(m, dirs)]
            ELSE [Cur EXCEPT !.files = FinalizeFiles(id, m, ch, files, dirs),
                             !.dirs = FinalizeDirs(m, dirs),
                             !.chunk = Without(ch, id),
                             !.meta = DeleteMetadata(saved, id),
                             !.sent = Without(sent, id),
                             !.ended = With(ended, id, "finalized"),
                             !.done = Append(done, Moved(id, m, ch[id]))]

\* TusUploadView.delete
DeleteStatus(s, id) == IF Precheck(s, id) # 0 THEN Precheck(s, id) ELSE 204
DeleteResponse(s, id) ==
    IF DeleteStatus(s, id) # 204 THEN ErrorResponse(DeleteStatus(s, id))
    ELSE Response(204, TusResumable)
DeleteResult(s, id) ==
    IF DeleteStatus(s, id) # 204 THEN Cur
    ELSE [Cur EXCEPT !.chunk = Without(chunk, meta[id].chunk_path),
                     !.meta = DeleteMetadata(meta, id),
                     !.sent = Without(sent, id),
                     !.ended = With(ended, id, "cancelled")]

(***************************************************************************)
(* The requests.                                                           *)
(***************************************************************************)
\* the values of the Upload-Length and Upload-Offset headers of a request
HeaderValues == {NoHdr, Hdr("abc")} \cup {Hdr(x) : x \in IntStrings}
Targets == Ids \cup {NoId}

\* A handler that answers before it reads a header or the body leaves the
\* same state whatever they hold: one value stands for all of them there.
LengthsFor(s) == IF CheckAuth(s) THEN HeaderValues ELSE {NoHdr}
MetadatasFor(s, h) == IF PostStatus(s, h) = 201 THEN Metadatas ELSE {MdNone}
OffsetsFor(s, id) == IF Precheck(s, id) = 0 THEN HeaderValues ELSE {NoHdr}
BodiesFor(s, id, h) ==
    IF PatchStatus(s, id, h, <<>>) \in {204, 500} THEN Bodies ELSE {<<>>}

Options ==
    /\ OptionsResponse.status = 204
    /\ StepTo(OptionsResult)
Post(s, h, md) ==
    /\ PostStatus(s, h) = 201 => nextId <= MaxIds
    /\ StepTo(PostResult(s, h, md))
HeadReq(s, id) ==
    /\ HeadStatus(s, id) # 0
    /\ StepTo(HeadResult(s, id))
Patch(s, id, h, body) ==
    /\ PatchStatus(s, id, h, body) \in {204, 500}
          => NewOffset(meta[id], body) <= MaxStore
    /\ StepTo(PatchResult(s, id, h, body))
Delete(s, id) ==
    /\ DeleteStatus(s, id) # 0
    /\ StepTo(DeleteResult(s, id))

DoOptions == Options
DoPost ==
    \E s \in Sessions : \E h \in LengthsFor(s) : \E md \in MetadatasFor(s, h) :
        Post(s, h, md)
DoHead == \E s \in Sessions, id \in Targets : HeadReq(s, id)
DoPatch ==
    \E s \in Sessions, id \in Targets :
        \E h \in OffsetsFor(s, id) : \E body \in BodiesFor(s, id, h) :
            Patch(s, id, h, body)
DoDelete == \E s \in Sessions, id \in Targets : Delete(s, id)

Next == DoOptions \/ DoPost \/ DoHead \/ DoPatch \/ DoDelete
Spec == Init /\ [][Next]_vars

(***************************************************************************)
(* One owner uploads the same file name again and again, into an empty     *)
(* destination: as many uploads as it takes to pass the limit of the       *)
(* suffix loop.  Every upload is one byte long, so every accepted PATCH    *)
(* completes its upload; several uploads may be open at a time.            *)
(***************************************************************************)
MaxDup == SuffixLimit + 2
DupOwner == Session(Connector(PyNone), PyInt(1), PyNone)
DupBodies == [1..1 -> Bytes]
InitDup ==
    /\ meta = <<>>
    /\ chunk = <<>>
    /\ files = <<>>
    /\ dirs = {<<>>, TmpDir}
    /\ nextId = 1
    /\ sent = <<>>
    /\ ended = <<>>
    /\ done = <<>>
    /\ moving = <<>>
    /\ InitImporter
    /\ reqs = <<>>
DupPost ==
    /\ nextId <= MaxDup
    /\ StepTo(PostResult(DupOwner, Hdr("1"), MdName(PlainA)))
DupPatch ==
    \E id \in DOMAIN meta, body \in DupBodies :
        /\ PatchStatus(DupOwner, id, Hdr("0"), body) = 204
        /\ StepTo(PatchResult(DupOwner, id, Hdr("0"), body))
NextDup == DupPost \/ DupPatch
SpecDup == InitDup /\ [][NextDup]_vars

(***************************************************************************)
(* Overlapping requests.  A PATCH that completes its upload runs in two    *)
(* steps: up to the end of the suffix loop of _finalize_upload, where      *)
(* dest_path is chosen from the files that exist then, and from os.rename  *)
(* on.  Between the two steps the requests for other uploads run.  One     *)
(* owner uploads one file name, one byte per upload, into an empty         *)
(* destination.                                                            *)
(***************************************************************************)
MaxRace == 3
\* patch up to line 376: the state when dest_path has been chosen
BeginResult(s, id, h, body) ==
    LET ch == AppendChunk(chunk, id, body)
        m == PatchedMeta(meta[id], body)
    IN [Cur EXCEPT !.chunk = ch,
                   !.meta = SaveMetadata(meta, id, m),
                   !.dirs = FinalizeDirs(m, dirs),
                   !.moving = With(moving, id, DestPath(m, files, FinalizeDirs(m, dirs)))]
\* patch from line 378 on: os.rename replaces whatever is at dest_path
MoveResult(id) ==
    [Cur EXCEPT !.files = With(files, moving[id], chunk[id]),
                !.chunk = Without(chunk, id),
                !.meta = DeleteMetadata(meta, id),
                !.sent = Without(sent, id),
                !.ended = With(ended, id, "finalized"),
                !.done = Append(done, Moved(id, meta[id], chunk[id])),
                !.moving = Without(moving, id)]
RacePost ==
    /\ nextId <= MaxRace
    /\ StepTo(PostResult(DupOwner, Hdr("1"), MdName(PlainA)))
RaceBegin ==
    \E id \in DOMAIN meta \ DOMAIN moving, body \in DupBodies :
        /\ PatchStatus(DupOwner, id, Hdr("0"), body) = 204
        /\ Completes(PatchedMeta(meta[id], body))
        /\ StepTo(BeginResult(DupOwner, id, Hdr("0"), body))
RaceMove ==
    \E id \in DOMAIN moving :
        /\ id \in DOMAIN chunk
        /\ StepTo(MoveResult(id))
NextRace == RacePost \/ RaceBegin \/ RaceMove
SpecRace == InitDup /\ [][NextRace]_vars

(***************************************************************************)
(* Failing file operations.  The handlers of Spec run on a disk where      *)
(* every file operation succeeds; here an operation of a request may       *)
(* raise: a write of the streaming loop of patch, the write of the record  *)
(* in save_metadata, and the move of _finalize_upload.  Each failing       *)
(* request is one step, from its first line to its response.               *)
(***************************************************************************)
\* the request passes the checks of patch (lines 237-267)
Passes(s, id, h) == Precheck(s, id) = 0 /\ OffsetCheck(h, meta[id]) = 0
\* bodies of several pieces, so that a write can fail after an earlier one
LongBodies == UNION {[1..n -> Bytes] : n \in 1 .. (MaxBody + 1)}

\* patch when the streaming loop raises after n bytes of the body have been
\* written (lines 273-285): the with block closes the byte store with the
\* n bytes in it, the record is not saved, the response is 500
WriteFailsStatus(s, id, h, body, n) ==
    IF Precheck(s, id) # 0 THEN Precheck(s, id)
    ELSE IF OffsetCheck(h, meta[id]) # 0 THEN OffsetCheck(h, meta[id])
    ELSE 500
WriteFailsResult(s, id, h, body, n) ==
    IF ~Passes(s, id, h) THEN Cur
    ELSE [Cur EXCEPT !.chunk = AppendChunk(chunk, id, SubSeq(body, 1, n))]

\* save_metadata when open or json.dump raises IOError (lines 49-53): the
\* error is logged and not raised; the record file is as it was (open
\* failed) or unreadable (the dump failed after open truncated it), which
\* load_metadata reports as no record
SaveMetadataFails(store, id, m, lost) == IF lost THEN Without(store, id) ELSE store

\* post when save_metadata fails: the response is the same 201
SaveFailsPostStatus(s, h, md, lost) == PostStatus(s, h)
SaveFailsPostResponse(s, h, md, lost) == PostResponse(s, h)
SaveFailsPostResult(s, h, md, lost) ==
    IF PostStatus(s, h) # 201 THEN PostResult(s, h, md)
    ELSE [Cur EXCEPT !.dirs = EnsureDirectories(dirs),
                     !.chunk = With(chunk, nextId, <<>>),
                     !.meta = SaveMetadataFails(meta, nextId,
                                  NewMeta(s, ParseInt(h[1]), md, nextId), lost),
                     !.sent = With(sent, nextId, <<>>),
                     !.nextId = nextId + 1]

\* patch when save_metadata fails (line 289): patch goes on with the record
\* it holds in memory
SaveFailsPatchStatus(s, id, h, body, lost) == PatchStatus(s, id, h, body)
SaveFailsPatchResponse(s, id, h, body, lost) == PatchResponse(s, id, h, body)
SaveFailsPatchResult(s, id, h, body, lost) ==
    IF ~Passes(s, id, h) THEN Cur
    ELSE LET ch == AppendChunk(chunk, id, body)
             m == PatchedMeta(meta[id], body)
             saved == SaveMetadataFails(meta, id, m, lost)
         IN IF ~Completes(m)
            THEN [Cur EXCEPT !.chunk = ch, !.meta = saved,
                             !.sent = With(sent, id, sent[id] \o body)]
            ELSE IF FinalizeRaises(id, m, ch, files, dirs)
            THEN [Cur EXCEPT !.chunk = ch, !.meta = saved,
                             !.dirs = FinalizeDirs(m, dirs)]
            ELSE [Cur EXCEPT !.files = FinalizeFiles(id, m, ch, files, dirs),
                             !.dirs = FinalizeDirs(m, dirs),
                             !.chunk = Without(ch, id),
                             !.meta = DeleteMetadata(saved, id),
                             !.sent = Without(sent, id),
                             !.ended = With(ended, id, "finalized"),
                             !.done = Append(done, Moved(id, m, ch[id]))]

\* The move of _finalize_upload fails (lines 379-386): os.rename raises
\* OSError, and the fallback raises in shutil.copy2 or in os.remove.  The
\* byte store is still there; at dest_path there is nothing (left = -1) or
\* the first left bytes of the content: all of them when copy2 raised
\* after the data was copied or when os.remove raised.
NothingLeft == 0 - 1
\* mutant of FailedMoveChunk: the byte store is removed although the move
\* failed
FailedMoveChunkRemoved(ch, id) == Without(ch, id)
\* the byte stores after the failed move
FailedMoveChunk(ch, id) == ch
\* the destination files after the failed move
FailedMoveFiles(id, m, ch, fs, ds, left) ==
    IF left = NothingLeft
           \/ Parent(DestPath(m, fs, FinalizeDirs(m, ds))) \notin FinalizeDirs(m, ds)
    THEN fs
    ELSE With(fs, DestPath(m, fs, FinalizeDirs(m, ds)), SubSeq(ch[id], 1, left))
\* the failure is reached: patch calls _finalize_upload and os.path.join
\* does not raise before the move
ReachesMove(s, id, h, body) ==
    /\ Passes(s, id, h)
    /\ Completes(PatchedMeta(meta[id], body))
    /\ meta[id].filename # PyNone
MoveFailsStatus(s, id, h, body, left) ==
    IF ReachesMove(s, id, h, body) THEN 500 ELSE PatchStatus(s, id, h, body)
MoveFailsResult(s, id, h, body, left) ==
    IF ~ReachesMove(s, id, h, body) THEN PatchResult(s, id, h, body)
    ELSE LET ch == AppendChunk(chunk, id, body)
             m == PatchedMeta(meta[id], body)
         IN [Cur EXCEPT !.chunk = FailedMoveChunk(ch, id),
                        !.meta = SaveMetadata(meta, id, m),
                        !.dirs = FinalizeDirs(m, dirs),
                        !.files = FailedMoveFiles(id, m, ch, files, dirs, left)]

PostSaveFails ==
    \E s \in Sessions, h \in HeaderValues, md \in Metadatas, lost \in BOOLEAN :
        /\ PostStatus(s, h) = 201
        /\ nextId <= MaxIds
        /\ StepTo(SaveFailsPostResult(s, h, md, lost))
PatchWriteFails ==
    \E s \in Sessions, id \in DOMAIN meta, h \in HeaderValues :
        \E body \in LongBodies, n \in 0 .. MaxBody :
            /\ Passes(s, id, h)
            /\ n < Len(body)
            /\ Len(chunk[id]) + n <= MaxStore
            /\ StepTo(WriteFailsResult(s, id, h, body, n))
PatchSaveFails ==
    \E s \in Sessions, id \in DOMAIN meta, h \in HeaderValues :
        \E body \in Bodies, lost \in BOOLEAN :
            /\ Passes(s, id, h)
            /\ Len(chunk[id]) + Len(body) <= MaxStore
            /\ StepTo(SaveFailsPatchResult(s, id, h, body, lost))
PatchMoveFails ==
    \E s \in Sessions, id \in DOMAIN meta, h \in HeaderValues :
        \E body \in Bodies, left \in NothingLeft .. MaxStore :
            /\ ReachesMove(s, id, h, body)
            /\ Len(chunk[id]) + Len(body) <= MaxStore
            /\ left <= Len(chunk[id]) + Len(body)
            /\ left # NothingLeft => Cardinality(DOMAIN files) < MaxLeft
            /\ StepTo(MoveFailsResult(s, id, h, body, left))
NextFault ==
    \/ Next
    \/ PostSaveFails
    \/ PatchWriteFails
    \/ PatchSaveFails
    \/ PatchMoveFails
SpecFault == InitDup /\ [][NextFault]_vars
(***************************************************************************)
(* The Upload-Metadata header, character by character.  A string is the    *)
(* sequence of its characters.  The client writes the header as the test   *)
(* of the repository does: the items "key base64(value)", or "key" alone   *)
(* for a bare key, joined by commas; post parses it with _parse_metadata.  *)
(* Values are drawn from ASCII characters, so that every byte is one       *)
(* character and the bytes base64 gives back decode as UTF-8.              *)
(***************************************************************************)
\* a Python str value
PyStr(cs) == [str |-> cs]
\* the characters of the values: a letter, the item separator and the
\* separator of key and value
ValChars == {"a", ",", " "}
Values == UNION {[1 .. n -> ValChars] : n \in 0 .. MaxVal}
\* str.encode() and bytes.decode("utf-8") on these characters
Ord(c) == IF c = "a" THEN 97 ELSE IF c = "," THEN 44 ELSE 32
Chr(b) == CHOOSE c \in ValChars : Ord(c) = b
Utf8Encode(cs) == [i \in 1 .. Len(cs) |-> Ord(cs[i])]
Utf8Decode(bs) == [i \in 1 .. Len(bs) |-> Chr(bs[i])]

\* the base64 alphabet of RFC 4648; the character of the 6-bit value n is
\* B64Alphabet[n + 1]
B64Alphabet ==
    <<"A", "B", "C", "D", "E", "F", "G", "H", "I", "J", "K", "L", "M",
      "N", "O", "P", "Q", "R", "S", "T", "U", "V", "W", "X", "Y", "Z",
      "a", "b", "c", "d", "e", "f", "g", "h", "i", "j", "k", "l", "m",
      "n", "o", "p", "q", "r", "s", "t", "u", "v", "w", "x", "y", "z",
      "0", "1", "2", "3", "4", "5", "6", "7", "8", "9", "+", "/">>
B64Pad == "="
B64Char(n) == B64Alphabet[n + 1]
IsB64Char(c) == \E i \in 1 .. Len(B64Alphabet) : B64Alphabet[i] = c
B64Value(c) == (CHOOSE i \in 1 .. Len(B64Alphabet) : B64Alphabet[i] = c) - 1
RECURSIVE B64Encode(_)
\* base64.b64encode: three bytes make four characters, a rest of one or
\* two bytes is padded
B64Encode(bs) ==
    IF bs = <<>> THEN <<>>
    ELSE IF Len(bs) = 1
    THEN <<B64Char(bs[1] \div 4), B64Char((bs[1] % 4) * 16), B64Pad, B64Pad>>
    ELSE IF Len(bs) = 2
    THEN <<B64Char(bs[1] \div 4),
           B64Char((bs[1] % 4) * 16 + bs[2] \div 16),
           B64Char((bs[2] % 16) * 4), B64Pad>>
    ELSE <<B64Char(bs[1] \div 4),
           B64Char((bs[1] % 4) * 16 + bs[2] \div 16),
           B64Char((bs[2] % 16) * 4 + bs[3] \div 64),
           B64Char(bs[3] % 64)>> \o B64Encode(SubSeq(bs, 4, Len(bs)))
\* base64.b64decode drops the characters that are neither of the alphabet
\* nor the padding before it decodes
IsB64Data(c) == IsB64Char(c) \/ c = B64Pad
B64Kept(v) == SelectSeq(v, IsB64Data)
\* the number of padding characters at the end of the kept characters
B64Padding(d) ==
    IF Len(d) >= 2 /\ d[Len(d)] = B64Pad /\ d[Len(d) - 1] = B64Pad THEN 2
    ELSE IF Len(d) >= 1 /\ d[Len(d)] = B64Pad THEN 1
    ELSE 0
\* base64.b64decode raises binascii.Error: the kept characters are not
\* whole groups of four closed by at most two padding characters
B64Raises(v) ==
    LET d == B64Kept(v)
    IN \/ Len(d) % 4 # 0
       \/ \E i \in 1 .. (Len(d) - B64Padding(d)) : d[i] = B64Pad
RECURSIVE B64DecodeGroups(_)
B64DecodeGroups(d) ==
    IF d = <<>> THEN <<>>
    ELSE LET a == B64Value(d[1])
             b == B64Value(d[2])
         IN IF d[3] = B64Pad THEN <<a * 4 + b \div 16>>
            ELSE LET c == B64Value(d[3])
                 IN IF d[4] = B64Pad
                    THEN <<a * 4 + b \div 16, (b % 16) * 16 + c \div 4>>
                    ELSE <<a * 4 + b \div 16, (b % 16) * 16 + c \div 4,
                           (c % 4) * 64 + B64Value(d[4])>>
                         \o B64DecodeGroups(SubSeq(d, 5, Len(d)))
\* base64.b64decode on a value it does not raise on
B64Decode(v) == B64DecodeGroups(B64Kept(v))

\* the first position of the character c in s, or 0
Find(s, c) ==
    IF \A i \in 1 .. Len(s) : s[i] # c THEN 0
    ELSE CHOOSE i \in 1 .. Len(s) :
             s[i] = c /\ \A j \in 1 .. (i - 1) : s[j] # c
RECURSIVE Split(_, _)
\* str.split(sep)
Split(s, sep) ==
    IF Find(s, sep) = 0 THEN <<s>>
    ELSE <<SubSeq(s, 1, Find(s, sep) - 1)>>
         \o Split(SubSeq(s, Find(s, sep) + 1, Len(s)), sep)
RECURSIVE Strip(_)
\* str.strip()
Strip(s) ==
    IF s # <<>> /\ s[1] = " " THEN Strip(Tail(s))
    ELSE IF s # <<>> /\ s[Len(s)] = " " THEN Strip(SubSeq(s, 1, Len(s) - 1))
    ELSE s
\* {}
EmptyDict == [k \in {} |-> PyNone]
\* dict.get(key, default)
Get(d, key, default) == IF key \in DOMAIN d THEN d[key] ELSE default
\* the body of the loop of _parse_metadata
ParseItem(metadata, raw) ==
    LET item == Strip(raw)
        at == Find(item, " ")
        key == SubSeq(item, 1, at - 1)
        value == SubSeq(item, at + 1, Len(item))
    IN IF at # 0
       THEN With(metadata, key,
                 IF B64Raises(value) THEN PyStr(value)
                 ELSE PyStr(Utf8Decode(B64Decode(value))))
       ELSE With(metadata, item, PyNone)
RECURSIVE ParseItems(_, _)
ParseItems(items, metadata) ==
    IF items = <<>> THEN metadata
    ELSE ParseItems(Tail(items), ParseItem(metadata, Head(items)))
\* _parse_metadata
ParseMetadata(header) ==
    IF header = <<>> THEN EmptyDict
    ELSE ParseItems(Split(header, ","), EmptyDict)

\* the keys of the test of the repository
Filename == <<"f", "i", "l", "e", "n", "a", "m", "e">>
Filetype == <<"f", "i", "l", "e", "t", "y", "p", "e">>
\* "unknown", the file name of a header without the key filename
Unknown == PyStr(<<"u", "n", "k", "n", "o", "w", "n">>)
Keys == {Filename, Filetype}
\* a pair is a key with a value, or a bare key (value None)
Pairs == [key : Keys, value : {PyNone} \cup {PyStr(v) : v \in Values}]
\* the pairs of a header in the order the client writes them; a key occurs
\* once
PairSeqs ==
    {<<>>} \cup {<<p>> : p \in Pairs}
           \cup {pq \in Pairs \X Pairs : pq[1].key # pq[2].key}
EncodeItem(p) ==
    IF p.value = PyNone THEN p.key
    ELSE p.key \o <<" ">> \o B64Encode(Utf8Encode(p.value.str))
RECURSIVE EncodeMetadata(_)
EncodeMetadata(ps) ==
    IF ps = <<>> THEN <<>>
    ELSE IF Len(ps) = 1 THEN EncodeItem(ps[1])
    ELSE EncodeItem(ps[1]) \o <<",">> \o EncodeMetadata(Tail(ps))

\* the record post writes for the header of characters
NewMetaOfHeader(s, length, header, id) ==
    [length |-> length, offset |-> 0,
     filename |-> Get(ParseMetadata(header), Filename, Unknown),
     metadata |-> ParseMetadata(header),
     chunk_path |-> id, user_id |-> GetUserId(s)]
\* TusUploadView.post; header is the Upload-Metadata header
PostHeaderResult(s, h, header) ==
    IF PostStatus(s, h) = 401 THEN Cur
    ELSE IF PostStatus(s, h) = 400
    THEN [Cur EXCEPT !.dirs = EnsureDirectories(dirs)]
    ELSE [Cur EXCEPT !.dirs = EnsureDirectories(dirs),
                     !.chunk = With(chunk, nextId, <<>>),
                     !.meta = SaveMetadata(meta, nextId,
                                  NewMetaOfHeader(s, ParseInt(h[1]), header, nextId)),
                     !.sent = With(sent, nextId, <<>>),
                     !.nextId = nextId + 1]
\* the Upload-Length of the uploads whose header is followed
MetaLength == Hdr("1")
PostHeader(s, ps) ==
    /\ PostStatus(s, MetaLength) = 201
    /\ nextId <= MaxIds
    /\ StepTo(PostHeaderResult(s, MetaLength, EncodeMetadata(ps)))
DoPostHeader == \E s \in Sessions, ps \in PairSeqs : PostHeader(s, ps)
NextMeta == DoOptions \/ DoPostHeader \/ DoHead \/ DoDelete
SpecMeta == InitDup /\ [][NextMeta]_vars

(***************************************************************************)
(* The importer: import_selected with process_files, and the two           *)
(* group_mappings views.  The connection is what OMERO.web hands to a view *)
(* behind login_required: the groups of the user and the admin flag.  The  *)
(* preprocessing configuration is the one of the tests of the repository:  *)
(* .lif files go to a container whose parameters hold the placeholder      *)
(* {UUID}, .db files to one whose parameters do not, other files to none.  *)
(***************************************************************************)
Conn(gs, adm) == [groups |-> gs, admin |-> adm, username |-> "alice"]
Conns == {Conn({"grp1"}, TRUE), Conn({"grp1"}, FALSE)}
\* a request body that json.loads raises on
InvalidJson == [invalid |-> TRUE]
\* BASE_DIR
BaseDir == "L-Drive"
\* the key of PREPROCESSING_EXTENSION_MAP.get for an extension without entry
NoKey == "None"
\* an item without uuid (None; the string form of an item has none either)
NoUuid == ""
Item(name, ext, u) == [localPath |-> name, ext |-> ext, uuid |-> u]
Items ==
    {Item("file.txt", ".txt", NoUuid), Item("a.lif", ".lif", "u1"),
     Item("b.lif", ".lif", NoUuid), Item("exp.db", ".db", "ignore")}
DestinationTypes == {"screens", "Screen", "datasets", "Dataset", "weird"}
Destinations == {<<t, 1>> : t \in DestinationTypes}
Groups == {"", "grp1", "grp9"}
SeqsUpTo(S, n) == UNION {[1 .. k -> S] : k \in 0 .. n}
\* the body of an import request: {"upload": {selectedLocal, selectedOmero,
\* group}}
ImportBodies ==
    {InvalidJson}
        \cup [selectedLocal : SeqsUpTo(Items, MaxItems),
              selectedOmero : SeqsUpTo(Destinations, MaxDests),
              group : Groups]

KnownType(t) == t \in {"screens", "Screen", "datasets", "Dataset"}
SampleParentType(t) == IF t \in {"screens", "Screen"} THEN "Screen" ELSE "Dataset"
PreprocessingKey(ext) ==
    IF ext = ".lif" THEN "leica_uuid"
    ELSE IF ext = ".db" THEN "screen_db"
    ELSE NoKey
AbsPath(item) == <<BaseDir, item.localPath>>
\* the passes of the inner loop of the first loop of process_files, in
\* order: every item with every destination
ItemDests(items, dests) ==
    [n \in 1 .. (Len(items) * Len(dests)) |->
        [item |-> items[((n - 1) \div Len(dests)) + 1],
         dest |-> dests[((n - 1) % Len(dests)) + 1]]]
\* the first loop raises ValueError at the first destination of unknown type
ProcessFilesRaises(items, dests) ==
    \E n \in 1 .. Len(ItemDests(items, dests)) :
        ~KnownType(ItemDests(items, dests)[n].dest[1])
KeyOf(p) ==
    <<SampleParentType(p.dest[1]), p.dest[2], PreprocessingKey(p.item.ext)>>
\* the keys of files_by_preprocessing in the order of their insertion
GroupKeys(ps) ==
    LET first(n) == \A k \in 1 .. (n - 1) : KeyOf(ps[k]) # KeyOf(ps[n])
        at == SelectSeq([n \in 1 .. Len(ps) |-> n], first)
    IN [i \in 1 .. Len(at) |-> KeyOf(ps[at[i]])]
\* files_by_preprocessing[key]
FileInfos(ps, key) ==
    LET in(p) == KeyOf(p) = key
        of == SelectSeq(ps, in)
    IN [i \in 1 .. Len(of) |-> [path |-> AbsPath(of[i].item), uuid |-> of[i].item.uuid]]
PathsOf(infos) == [i \in 1 .. Len(infos) |-> infos[i].path]
OrderInfo(key, paths, group, username) ==
    [Group |-> group, Username |-> username, DestinationID |-> key[2],
     DestinationType |-> key[1], Files |-> paths]
WithContainer(o, container) ==
    o @@ [preprocessing_container |-> container,
          preprocessing_inputfile |-> "{Files}",
          preprocessing_outputfolder |-> "/data",
          preprocessing_altoutputfolder |-> "/out"]
\* the orders the second loop of process_files creates for one key
GroupOrders(key, infos, group, username) ==
    LET has(f) == f.uuid # NoUuid
        hasnot(f) == f.uuid = NoUuid
        uuid_files == SelectSeq(infos, has)
        non_uuid_files == SelectSeq(infos, hasnot)
    IN IF key[3] = NoKey
       THEN <<OrderInfo(key, PathsOf(infos), group, username)>>
       ELSE IF key[3] = "screen_db"
       THEN <<WithContainer(OrderInfo(key, PathsOf(infos), group, username),
                            "screen:latest")
              @@ [extra_params |-> [saveoption |-> "single"]]>>
       ELSE IF uuid_files = <<>>
       THEN <<WithContainer(OrderInfo(key, PathsOf(infos), group, username),
                            "leica:latest")>>
       ELSE [i \in 1 .. Len(uuid_files) |->
                WithContainer(OrderInfo(key, <<uuid_files[i].path>>, group, username),
                              "leica:latest")
                @@ [extra_params |-> [image_uuid |-> uuid_files[i].uuid]]]
            \o (IF non_uuid_files = <<>> THEN <<>>
                ELSE <<WithContainer(OrderInfo(key, PathsOf(non_uuid_files),
                                               group, username),
                                     "leica:latest")>>)
RECURSIVE OrdersOfKeys(_, _, _, _)
OrdersOfKeys(keys, ps, group, username) ==
    IF keys = <<>> THEN <<>>
    ELSE GroupOrders(Head(keys), FileInfos(ps, Head(keys)), group, username)
         \o OrdersOfKeys(Tail(keys), ps, group, username)
\* create_upload_order: the order goes to the ingest tracker; its UUID is a
\* value no earlier order has
CreateUploadOrders(log, os) ==
    log \o [i \in 1 .. Len(os) |-> os[i] @@ [UUID |-> Len(log) + i]]
\* mutant of ProcessFiles: the orders of an item are created as soon as its
\* destinations have been looked at
ProcessFilesItemwise(log, items, dests, group, username) ==
    LET good == {n \in 1 .. Len(ItemDests(items, dests)) :
                    \A k \in 1 .. n : KnownType(ItemDests(items, dests)[k].dest[1])}
        ps == SubSeq(ItemDests(items, dests), 1, Cardinality(good))
    IN CreateUploadOrders(log, OrdersOfKeys(GroupKeys(ps), ps, group, username))
\* process_files: the log of orders after the call
ProcessFiles(log, items, dests, group, username) ==
    IF ProcessFilesRaises(items, dests) THEN log
    ELSE LET ps == ItemDests(items, dests)
         IN CreateUploadOrders(log, OrdersOfKeys(GroupKeys(ps), ps, group, username))
\* import_selected: the status of the response
ImportStatus(c, b) ==
    IF b = InvalidJson THEN 400
    ELSE IF b.selectedLocal = <<>> THEN 400
    ELSE IF b.selectedOmero = <<>> THEN 400
    ELSE IF b.group = "" THEN 400
    ELSE IF b.group \notin c.groups THEN 403
    ELSE IF ProcessFilesRaises(b.selectedLocal, b.selectedOmero) THEN 500
    ELSE 200
\* import_selected: the orders after the request
ImportResult(c, b) ==
    IF ImportStatus(c, b) \in {400, 403} THEN orders
    ELSE ProcessFiles(orders, b.selectedLocal, b.selectedOmero, b.group, c.username)

\* the two views named group_mappings, each with its own file
Views == {"importer_views", "group_mappings_views"}
\* JSON values: a request body that is not an object, objects without and
\* with the key mappings, and the values of that key
JsonNull == [null |-> TRUE]
JsonObject(m) == [object |-> m]
EmptyMappings == JsonObject(<<>>)
MappingValues ==
    {JsonNull, EmptyMappings, JsonObject([g1 |-> "labA", g2 |-> "labB"]),
     JsonObject([a |-> "b"])}
NotAnObject == [list |-> <<>>]
NoBody == [empty |-> TRUE]
NoMappingsKey == [data |-> <<>>]
Data(m) == [data |-> [mappings |-> m]]
MappingBodies ==
    {InvalidJson, NoBody, NotAnObject, NoMappingsKey} \cup {Data(m) : m \in MappingValues}
\* json.loads(request.body) raises JSONDecodeError; group_mappings_views
\* reads an empty body as '{}'
BodyRaises(v, b) == b = InvalidJson \/ (b = NoBody /\ v = "importer_views")
\* data.get("mappings", {}) raises AttributeError on a value without get
GetRaises(b) == b = NotAnObject
\* data.get("mappings", {})
PostedMappings(b) ==
    IF b \in {NoBody, NoMappingsKey} THEN EmptyMappings ELSE b.data.mappings
\* group_mappings, GET: the response
MappingsGetResponse(v) ==
    [status |-> 200,
     mappings |-> IF mappings[v] = Absent THEN EmptyMappings ELSE mappings[v]]
\* mutant of MappingsPostStatus: the admin flag is not looked at
MappingsPostStatusOpen(v, c, b) ==
    IF BodyRaises(v, b) THEN 400
    ELSE IF GetRaises(b) THEN 500
    ELSE 200
\* group_mappings, POST: the status of the response
MappingsPostStatus(v, c, b) ==
    IF ~c.admin THEN 403
    ELSE IF BodyRaises(v, b) THEN 400
    ELSE IF GetRaises(b) THEN 500
    ELSE 200
\* group_mappings, POST: the files after the request
MappingsPostResult(v, c, b) ==
    IF MappingsPostStatus(v, c, b) = 200
    THEN [mappings EXCEPT ![v] = PostedMappings(b)]
    ELSE mappings
\* history: what the last POST answered 200 carried
PostedAfter(v, c, b) ==
    IF MappingsPostStatus(v, c, b) = 200
    THEN [posted EXCEPT ![v] = PostedMappings(b)]
    ELSE posted

\* A request answered before it reads the items and destinations leaves
\* the same state whatever they are: one value stands for all of them.
ImportBodiesSent ==
    {InvalidJson}
        \cup {b \in [selectedLocal : {<<>>}, selectedOmero : {<<>>},
                     group : Groups] : TRUE}
        \cup [selectedLocal : SeqsUpTo(Items, MaxItems) \ {<<>>},
              selectedOmero : {<<>>}, group : {"grp1"}]
        \cup [selectedLocal : SeqsUpTo(Items, MaxItems) \ {<<>>},
              selectedOmero : SeqsUpTo(Destinations, MaxDests) \ {<<>>},
              group : Groups \ {""}]
\* one import is answered 200 in a behaviour
ImportSelected(c, b) ==
    /\ ImportStatus(c, b) = 200 => orders = <<>>
    /\ Len(ImportResult(c, b)) <= MaxOrders
    /\ orders' = ImportResult(c, b)
    /\ UNCHANGED <<mappings, posted>>
    /\ UNCHANGED tusVars
MappingsGet(v) ==
    /\ MappingsGetResponse(v).status = 200
    /\ UNCHANGED vars
MappingsPost(v, c, b) ==
    /\ mappings' = MappingsPostResult(v, c, b)
    /\ posted' = PostedAfter(v, c, b)
    /\ UNCHANGED orders
    /\ UNCHANGED tusVars
DoImportSelected == \E c \in Conns, b \in ImportBodiesSent : ImportSelected(c, b)
DoMappingsGet == \E v \in Views : MappingsGet(v)
DoMappingsPost == \E v \in Views, c \in Conns, b \in MappingBodies : MappingsPost(v, c, b)
NextImporter == DoImportSelected \/ DoMappingsGet \/ DoMappingsPost
SpecImporter == InitDup /\ [][NextImporter]_vars

(***************************************************************************)
(* The handlers step by step.  A request is an entry of reqs; it runs      *)
(* from one file operation to the next, and other requests may run in      *)
(* between.  load_metadata with the checks that follow it is one step, as  *)
(* are the write to the byte store, save_metadata, the directory calls     *)
(* with the suffix loop, os.rename, shutil.copy2, os.remove and            *)
(* delete_metadata.  The requests are those of one owner on one upload of  *)
(* the file name a.tif.  os.rename may raise OSError (byte store and       *)
(* destination on different file systems), and raises it when there is no  *)
(* byte store; the fallback then copies and removes.  The history sent     *)
(* holds the bytes written to the byte store of an upload and is kept      *)
(* when the upload ends.                                                   *)
(***************************************************************************)
Request(verb, id, pc, m, body) ==
    [verb |-> verb, id |-> id, pc |-> pc, m |-> m, body |-> body,
     dest |-> <<>>, status |-> 0]
InFlight == {i \in 1 .. Len(reqs) : reqs[i].status = 0}
At(i, verb, pc) ==
    i \in 1 .. Len(reqs) /\ reqs[i].verb = verb /\ reqs[i].pc = pc /\ reqs[i].status = 0
Goto(i, pc) == [reqs EXCEPT ![i].pc = pc]
\* the response: the request stays in the log, where it stopped
Answer(i, status) == [reqs EXCEPT ![i].status = status]
\* the lengths of the uploads that are followed step by step
StepLengths == {Hdr("0"), Hdr("1"), Hdr("2")}
StepOffsets == {Hdr("0"), Hdr("1")}

\* post up to the creation of the byte store (tus_views.py:150-182)
StartPost(flight) ==
    \E h \in StepLengths :
        /\ nextId <= MaxIds
        /\ Cardinality(InFlight) < flight
        /\ PostStatus(DupOwner, h) = 201
        /\ dirs' = EnsureDirectories(dirs)
        /\ chunk' = With(chunk, nextId, <<>>)
        /\ sent' = With(sent, nextId, <<>>)
        /\ nextId' = nextId + 1
        /\ reqs' = Append(reqs, Request("POST", nextId, "created",
                              NewMeta(DupOwner, ParseInt(h[1]), MdName(PlainA), nextId),
                              <<>>))
        /\ UNCHANGED <<meta, files, ended, done, moving, orders, mappings, posted>>
\* post: save_metadata and the response
PostSave(i) ==
    /\ At(i, "POST", "created")
    /\ meta' = SaveMetadata(meta, reqs[i].id, reqs[i].m)
    /\ reqs' = Answer(i, 201)
    /\ UNCHANGED <<chunk, files, dirs, nextId, sent, ended, done, moving,
                   orders, mappings, posted>>

\* patch up to the offset check (tus_views.py:237-267), for a request that
\* passes it
StartPatch(flight) ==
    \E id \in DOMAIN meta, h \in StepOffsets, body \in Bodies :
        /\ Len(reqs) <= MaxReqs
        /\ Cardinality(InFlight) < flight
        /\ Precheck(DupOwner, id) = 0
        /\ OffsetCheck(h, LoadMetadata(id)) = 0
        /\ reqs' = Append(reqs, Request("PATCH", id, "loaded", LoadMetadata(id), body))
        /\ UNCHANGED <<meta, chunk, files, dirs, nextId, sent, ended, done,
                       moving, orders, mappings, posted>>
\* mutant of AppendedChunk: the byte store is opened "wb"
AppendedChunkFromStart(ch, id, body) == With(ch, id, body)
\* the byte store after open(chunk_path, "ab") and the writes: "ab" makes
\* the file when there is none
AppendedChunk(ch, id, body) ==
    IF id \in DOMAIN ch THEN AppendChunk(ch, id, body) ELSE With(ch, id, body)
\* patch: the streaming loop
PatchWrite(i) ==
    /\ At(i, "PATCH", "loaded")
    /\ chunk' = AppendedChunk(chunk, reqs[i].m.chunk_path, reqs[i].body)
    /\ sent' = With(sent, reqs[i].id, sent[reqs[i].id] \o reqs[i].body)
    /\ reqs' = Goto(i, "written")
    /\ UNCHANGED <<meta, files, dirs, nextId, ended, done, moving, orders,
                   mappings, posted>>
\* the record patch saves: the one it loaded, with the new offset
StepSavedMeta(r) == PatchedMeta(r.m, r.body)
\* patch: save_metadata, and the response when the upload is not complete
PatchSave(i) ==
    /\ At(i, "PATCH", "written")
    /\ meta' = SaveMetadata(meta, reqs[i].id, StepSavedMeta(reqs[i]))
    /\ reqs' = IF Completes(StepSavedMeta(reqs[i]))
               THEN [Goto(i, "saved") EXCEPT ![i].m = StepSavedMeta(reqs[i])]
               ELSE [Answer(i, 204) EXCEPT ![i].m = StepSavedMeta(reqs[i])]
    /\ UNCHANGED <<chunk, files, dirs, nextId, sent, ended, done, moving,
                   orders, mappings, posted>>
\* _finalize_upload up to the end of the suffix loop
FinalizeChoose(i) ==
    /\ At(i, "PATCH", "saved")
    /\ dirs' = FinalizeDirs(reqs[i].m, dirs)
    /\ reqs' = [Goto(i, "chosen") EXCEPT
                   ![i].dest = DestPath(reqs[i].m, files, FinalizeDirs(reqs[i].m, dirs))]
    /\ UNCHANGED <<meta, chunk, files, nextId, sent, ended, done, moving,
                   orders, mappings, posted>>
\* os.rename succeeds
FinalizeRename(i) ==
    /\ At(i, "PATCH", "chosen")
    /\ reqs[i].m.chunk_path \in DOMAIN chunk
    /\ files' = With(files, reqs[i].dest, chunk[reqs[i].m.chunk_path])
    /\ chunk' = Without(chunk, reqs[i].m.chunk_path)
    /\ done' = Append(done, Moved(reqs[i].id, reqs[i].m, chunk[reqs[i].m.chunk_path]))
    /\ reqs' = Goto(i, "moved")
    /\ UNCHANGED <<meta, dirs, nextId, sent, ended, moving, orders, mappings, posted>>
\* os.rename raises OSError
FinalizeRenameFails(i) ==
    /\ At(i, "PATCH", "chosen")
    /\ reqs' = Goto(i, "fallback")
    /\ UNCHANGED <<meta, chunk, files, dirs, nextId, sent, ended, done, moving,
                   orders, mappings, posted>>
\* mutant of FallbackFiles: the copy is made of an emptied byte store
FallbackFilesEmpty(fs, dest, ch, path) == With(fs, dest, <<>>)
\* the destination files after shutil.copy2
FallbackFiles(fs, dest, ch, path) == With(fs, dest, ch[path])
\* shutil.copy2, which raises when there is no byte store
FinalizeCopy(i) ==
    /\ At(i, "PATCH", "fallback")
    /\ IF reqs[i].m.chunk_path \in DOMAIN chunk
       THEN /\ files' = FallbackFiles(files, reqs[i].dest, chunk, reqs[i].m.chunk_path)
            /\ done' = Append(done, Moved(reqs[i].id, reqs[i].m,
                                          chunk[reqs[i].m.chunk_path]))
            /\ reqs' = Goto(i, "copied")
       ELSE /\ reqs' = Answer(i, 500)
            /\ UNCHANGED <<files, done>>
    /\ UNCHANGED <<meta, chunk, dirs, nextId, sent, ended, moving, orders,
                   mappings, posted>>
\* os.remove(chunk_path) of the fallback, which raises when there is no
\* byte store
FinalizeRemove(i) ==
    /\ At(i, "PATCH", "copied")
    /\ IF reqs[i].m.chunk_path \in DOMAIN chunk
       THEN /\ chunk' = Without(chunk, reqs[i].m.chunk_path)
            /\ reqs' = Goto(i, "removed")
       ELSE /\ reqs' = Answer(i, 500)
            /\ UNCHANGED chunk
    /\ UNCHANGED <<meta, files, dirs, nextId, sent, ended, done, moving,
                   orders, mappings, posted>>
\* delete_metadata at the end of _finalize_upload, and the response of patch
FinalizeDeleteMetadata(i) ==
    /\ At(i, "PATCH", "moved") \/ At(i, "PATCH", "removed")
    /\ meta' = DeleteMetadata(meta, reqs[i].id)
    /\ ended' = With(ended, reqs[i].id, "finalized")
    /\ reqs' = Answer(i, 204)
    /\ UNCHANGED <<chunk, files, dirs, nextId, sent, done, moving, orders,
                   mappings, posted>>

\* delete up to the ownership check (tus_views.py:304-318), for a request
\* that passes it
StartDelete(flight) ==
    \E id \in DOMAIN meta :
        /\ Len(reqs) <= MaxReqs
        /\ Cardinality(InFlight) < flight
        /\ Precheck(DupOwner, id) = 0
        /\ reqs' = Append(reqs, Request("DELETE", id, "loaded", LoadMetadata(id), <<>>))
        /\ UNCHANGED <<meta, chunk, files, dirs, nextId, sent, ended, done,
                       moving, orders, mappings, posted>>
\* delete: the byte store is removed if it exists
DeleteChunk(i) ==
    /\ At(i, "DELETE", "loaded")
    /\ chunk' = Without(chunk, reqs[i].m.chunk_path)
    /\ reqs' = Goto(i, "unlinked")
    /\ UNCHANGED <<meta, files, dirs, nextId, sent, ended, done, moving,
                   orders, mappings, posted>>
\* delete: delete_metadata and the response
DeleteRecord(i) ==
    /\ At(i, "DELETE", "unlinked")
    /\ meta' = DeleteMetadata(meta, reqs[i].id)
    /\ ended' = With(ended, reqs[i].id, "cancelled")
    /\ reqs' = Answer(i, 204)
    /\ UNCHANGED <<chunk, files, dirs, nextId, sent, done, moving, orders,
                   mappings, posted>>

RequestSlots == 1 .. (MaxReqs + 1)
DoPostSave == \E i \in RequestSlots : PostSave(i)
DoPatchWrite == \E i \in RequestSlots : PatchWrite(i)
DoPatchSave == \E i \in RequestSlots : PatchSave(i)
DoFinalizeChoose == \E i \in RequestSlots : FinalizeChoose(i)
DoFinalizeRename == \E i \in RequestSlots : FinalizeRename(i)
DoFinalizeRenameFails == \E i \in RequestSlots : FinalizeRenameFails(i)
DoFinalizeCopy == \E i \in RequestSlots : FinalizeCopy(i)
DoFinalizeRemove == \E i \in RequestSlots : FinalizeRemove(i)
DoFinalizeDeleteMetadata == \E i \in RequestSlots : FinalizeDeleteMetadata(i)
DoDeleteChunk == \E i \in RequestSlots : DeleteChunk(i)
DoDeleteRecord == \E i \in RequestSlots : DeleteRecord(i)
Continue ==
    \/ DoPostSave \/ DoPatchWrite \/ DoPatchSave \/ DoFinalizeChoose
    \/ DoFinalizeRename \/ DoFinalizeRenameFails \/ DoFinalizeCopy
    \/ DoFinalizeRemove \/ DoFinalizeDeleteMetadata
    \/ DoDeleteChunk \/ DoDeleteRecord
\* requests that run one after the other
StartPostAlone == StartPost(1)
StartPatchAlone == StartPatch(1)
StartDeleteAlone == StartDelete(1)
NextSteps == StartPostAlone \/ StartPatchAlone \/ StartDeleteAlone \/ Continue
SpecSteps == InitDup /\ [][NextSteps]_vars
\* requests that overlap, MaxFlight at a time
StartPostAmong == StartPost(MaxFlight)
StartPatchAmong == StartPatch(MaxFlight)
StartDeleteAmong == StartDelete(MaxFlight)
NextOverlap == StartPostAmong \/ StartPatchAmong \/ StartDeleteAmong \/ Continue
SpecOverlap == InitDup /\ [][NextOverlap]_vars

(***************************************************************************)
(* An owner that resumes.  One principal creates an upload, of any length  *)
(* create accepts and with any Upload-Metadata, on an empty disk, and then *)
(* does what the protocol asks of a client: HEAD for the offset, PATCH     *)
(* from that offset with some or all of the bytes that remain (an empty    *)
(* body when none remain), HEAD again.  Nobody cancels and every file      *)
(* operation succeeds.  The log holds the answer to the last HEAD until    *)
(* the PATCH that uses it is sent.                                         *)
(***************************************************************************)
ResumeOwners == {s \in Sessions : CheckAuth(s)}
\* the session s is of the principal that created the upload id
IsOwnerSession(s, id) == GetUserId(s) = meta[id].user_id
ResumeLengths == {Hdr(x) : x \in IntStrings}
\* the bodies a client may send when n bytes remain
Chunks(n) ==
    IF n <= 0 THEN {<<>>}
    ELSE UNION {[1..k -> Bytes] : k \in 1 .. n}
\* the answer to a HEAD in the log: offset and length as the headers give
\* them
Answered(id, response) ==
    [Request("HEAD", id, "answered",
             [offset |-> response.headers["Upload-Offset"],
              length |-> response.headers["Upload-Length"]], <<>>)
        EXCEPT !.status = response.status]
ResumePost ==
    \E s \in ResumeOwners, h \in ResumeLengths, md \in Metadatas :
        /\ reqs = <<>>
        /\ nextId <= MaxIds
        /\ StepTo(PostResult(s, h, md))
ResumeHead ==
    \E id \in DOMAIN meta, s \in ResumeOwners :
        /\ IsOwnerSession(s, id)
        /\ reqs = <<>>
        /\ HeadStatus(s, id) = 200
        /\ reqs' = <<Answered(id, HeadResponse(s, id))>>
        /\ UNCHANGED <<meta, chunk, files, dirs, nextId, sent, ended, done,
                       moving, orders, mappings, posted>>
ResumePatch ==
    \E id \in DOMAIN meta, s \in ResumeOwners :
        /\ IsOwnerSession(s, id)
        /\ reqs # <<>>
        /\ reqs[1].id = id
        /\ \E body \in Chunks(ParseInt(reqs[1].m.length) - ParseInt(reqs[1].m.offset)) :
               LET r == PatchResult(s, id, Hdr(reqs[1].m.offset), body)
               IN /\ meta' = r.meta
                  /\ chunk' = r.chunk
                  /\ files' = r.files
                  /\ dirs' = r.dirs
                  /\ nextId' = r.nextId
                  /\ sent' = r.sent
                  /\ ended' = r.ended
                  /\ done' = r.done
                  /\ moving' = r.moving
        /\ reqs' = <<>>
        /\ UNCHANGED <<orders, mappings, posted>>
NextResume == ResumePost \/ ResumeHead \/ ResumePatch
\* the client does not stop: a HEAD or a PATCH that can be sent is sent
SpecResume ==
    /\ InitDup
    /\ [][NextResume]_vars
    /\ WF_vars(ResumeHead)
    /\ WF_vars(ResumePatch)

(***************************************************************************)
(* The claims.  A claim about the response to a request, or about what a   *)
(* request changes, is stated of every request in every reachable state:   *)
(* XxxResponse is the response and XxxResult the state after it.           *)
(***************************************************************************)
\* the session s is authenticated and resolves to the user id recorded in
\* the record of id, as the session that created it did
IsOwner(s, id) == CheckAuth(s) /\ GetUserId(s) = meta[id].user_id
\* the header h carries an integer
IsIntHeader(h) == h # NoHdr /\ IsIntString(h[1])

\* C1: a PATCH by the owner of an existing upload whose Upload-Offset is an
\* integer other than the recorded offset is answered 409 and changes
\* nothing: byte store, record and everything else stay as they were.
C1_MismatchIs409AndNoChange ==
    \A id \in DOMAIN meta, s \in Sessions, h \in HeaderValues, body \in Bodies :
        (IsOwner(s, id) /\ IsIntHeader(h) /\ ParseInt(h[1]) # meta[id].offset)
            => /\ PatchResponse(s, id, h, body).status = 409
               /\ PatchResult(s, id, h, body) = Cur
\* an upload that has received bytes, so that a repeated first chunk
\* (offset 0) is a mismatch
C1_Witness ==
    \E id \in DOMAIN meta, s \in Sessions :
        /\ meta[id].offset > 0
        /\ IsOwner(s, id)
        /\ PatchStatus(s, id, Hdr("0"), <<"x">>) = 409

\* C2: whenever the record of an upload exists, its byte store exists and
\* holds exactly offset bytes.
C2_StoreSizeIsOffset ==
    \A id \in DOMAIN meta :
        /\ meta[id].chunk_path \in DOMAIN chunk
        /\ Len(chunk[meta[id].chunk_path]) = meta[id].offset
\* an upload with bytes received by accepted PATCH requests
C2_Witness ==
    \E id \in DOMAIN meta : meta[id].offset > 0 /\ Len(sent[id]) = meta[id].offset

\* C3: 0 <= offset <= length for every record that exists.
C3_OffsetWithinLength ==
    \A id \in DOMAIN meta : 0 <= meta[id].offset /\ meta[id].offset <= meta[id].length

\* C4: for an upload created by a principal with a user id, HEAD, PATCH
\* and DELETE by an authenticated principal with another user id are
\* answered 403 and change nothing, whatever the Upload-Offset header.
C4_NonOwnerIs403 ==
    \A id \in DOMAIN meta, s \in Sessions :
        (/\ CheckAuth(s)
         /\ meta[id].user_id # PyNone
         /\ GetUserId(s) # PyNone
         /\ GetUserId(s) # meta[id].user_id)
            => /\ HeadStatus(s, id) = 403
               /\ DeleteStatus(s, id) = 403
               /\ DeleteResult(s, id) = Cur
               /\ \A h \in HeaderValues, body \in Bodies :
                      /\ PatchStatus(s, id, h, body) = 403
                      /\ PatchResult(s, id, h, body) = Cur

\* C5: no record exists with offset equal to length, and an authenticated
\* HEAD, PATCH or DELETE on a finalized upload is answered 404.
C5_CompleteIsGone ==
    /\ \A id \in DOMAIN meta : meta[id].offset # meta[id].length
    /\ \A id \in DOMAIN ended, s \in Sessions :
           (ended[id] = "finalized" /\ CheckAuth(s))
               => /\ id \notin DOMAIN meta
                  /\ HeadStatus(s, id) = 404
                  /\ DeleteStatus(s, id) = 404
                  /\ \A h \in HeaderValues, body \in Bodies :
                         PatchStatus(s, id, h, body) = 404

\* C6: a PATCH that completes an upload adds exactly one file to the
\* destination tree, holding the bodies answered 204 in order (this one
\* last), and changes no other file; a PATCH answered 400, 403, 404 or 409
\* leaves the byte stores as they were.
C6_OneFileWithTheBodies ==
    \A id \in Ids, s \in Sessions, h \in HeaderValues, body \in Bodies :
        LET r == PatchResult(s, id, h, body)
            status == PatchStatus(s, id, h, body)
        IN /\ (status = 204 /\ id \notin DOMAIN r.meta)
                  => \E p \in DOMAIN r.files \ DOMAIN files :
                         /\ InDestTree(p)
                         /\ DOMAIN r.files = DOMAIN files \cup {p}
                         /\ r.files[p] = sent[id] \o body
                         /\ \A q \in DOMAIN files : r.files[q] = files[q]
           /\ status \in {400, 403, 404, 409} => r.chunk = chunk

\* C7: no request lowers the offset of an upload that exists before and
\* after it; a PATCH answered 204 with a body of n bytes carries
\* Upload-Offset = offset + n, and the record, while it exists, holds that
\* offset.
C7_OffsetMonotonic ==
    /\ \A s \in Sessions, id \in Targets, h \in HeaderValues, body \in Bodies :
           LET r == PatchResult(s, id, h, body)
           IN /\ \A u \in DOMAIN meta \cap DOMAIN r.meta :
                     r.meta[u].offset >= meta[u].offset
              /\ PatchStatus(s, id, h, body) = 204
                     => /\ PatchResponse(s, id, h, body).headers["Upload-Offset"]
                            = ToString(meta[id].offset + Len(body))
                        /\ id \in DOMAIN r.meta
                               => r.meta[id].offset = meta[id].offset + Len(body)
    /\ \A s \in Sessions, id \in Targets, h \in HeaderValues, md \in Metadatas :
           \A u \in DOMAIN meta :
               /\ u \in DOMAIN PostResult(s, h, md).meta
                      => PostResult(s, h, md).meta[u].offset >= meta[u].offset
               /\ u \in DOMAIN DeleteResult(s, id).meta
                      => DeleteResult(s, id).meta[u].offset >= meta[u].offset
               /\ u \in DOMAIN HeadResult(s, id).meta
                      => HeadResult(s, id).meta[u].offset >= meta[u].offset
\* an upload that has moved from offset 0 by an accepted PATCH and can
\* take another one
C7_Witness ==
    \E id \in DOMAIN meta, s \in Sessions :
        /\ meta[id].offset > 0
        /\ sent[id] # <<>>
        /\ PatchStatus(s, id, Hdr(ToString(meta[id].offset)), <<"y">>) = 204

\* C8: a POST, HEAD, PATCH or DELETE of a session without connector (an
\* unauthenticated one) is answered 401, for an identifier with a record
\* and for one without, and changes nothing.
C8_UnauthenticatedIs401 ==
    \A s \in Sessions :
        s.connector = Absent
            => /\ \A h \in HeaderValues, md \in Metadatas :
                      /\ PostStatus(s, h) = 401
                      /\ PostResult(s, h, md) = Cur
               /\ \A id \in Targets :
                      /\ HeadStatus(s, id) = 401
                      /\ HeadResult(s, id) = Cur
                      /\ DeleteStatus(s, id) = 401
                      /\ DeleteResult(s, id) = Cur
                      /\ \A h \in HeaderValues, body \in Bodies :
                             /\ PatchStatus(s, id, h, body) = 401
                             /\ PatchResult(s, id, h, body) = Cur
\* an upload in progress and a session without connector that carries the
\* user id of the upload's owner
C8_Witness ==
    \E id \in DOMAIN meta, s \in Sessions :
        /\ meta[id].offset > 0
        /\ s.connector = Absent
        /\ s.user_id = meta[id].user_id

\* C9: a create by a session that resolves to no user id is answered 401
\* and creates neither record nor byte store.
C9_CreateNeedsUserId ==
    \A s \in Sessions, h \in HeaderValues, md \in Metadatas :
        GetUserId(s) = PyNone
            => /\ PostStatus(s, h) = 401
               /\ PostResult(s, h, md).meta = meta
               /\ PostResult(s, h, md).chunk = chunk

\* C10: a DELETE by the owner of an existing upload is answered 204,
\* removes record and byte store and leaves the files as they are; an
\* authenticated HEAD, PATCH or DELETE on a cancelled upload is answered
\* 404.
C10_CancelRemovesUpload ==
    /\ \A id \in DOMAIN meta, s \in Sessions :
           IsOwner(s, id)
               => /\ DeleteStatus(s, id) = 204
                  /\ id \notin DOMAIN DeleteResult(s, id).meta
                  /\ meta[id].chunk_path \notin DOMAIN DeleteResult(s, id).chunk
                  /\ DeleteResult(s, id).files = files
    /\ \A id \in DOMAIN ended, s \in Sessions :
           (ended[id] = "cancelled" /\ CheckAuth(s))
               => /\ id \notin DOMAIN meta
                  /\ id \notin DOMAIN chunk
                  /\ HeadStatus(s, id) = 404
                  /\ DeleteStatus(s, id) = 404
                  /\ \A h \in HeaderValues, body \in Bodies :
                         PatchStatus(s, id, h, body) = 404
\* a cancelled upload
C10_Witness ==
    \E id \in DOMAIN ended :
        ended[id] = "cancelled" /\ id \notin DOMAIN meta

\* the path p lies inside the directory d
Inside(p, d) == Len(p) > Len(d) /\ SubSeq(p, 1, Len(d)) = d
\* the subdirectory user_<v> of the destination root
OwnerDir(v) == Append(DestRoot, "user_" \o Str(v))
\* the paths at which the files fs2 differ from the files fs1
Touched(fs1, fs2) ==
    {p \in DOMAIN fs1 \cup DOMAIN fs2 :
        \/ p \notin DOMAIN fs1
        \/ p \notin DOMAIN fs2
        \/ fs1[p] # fs2[p]}

\* C11: every finalized upload of an owner has left a file with its content
\* in the owner's subdirectory user_<owner id>, and a PATCH that completes
\* an upload of one owner creates, replaces and removes nothing in the
\* subdirectory of another owner.
C11_OwnersDoNotMeet ==
    /\ \A i \in DOMAIN done :
           done[i].user_id \in UserIds
               => \E p \in DOMAIN files :
                      /\ Inside(p, OwnerDir(done[i].user_id))
                      /\ files[p] = done[i].content
    /\ \A id \in DOMAIN meta, s \in Sessions, h \in HeaderValues, body \in Bodies :
           meta[id].user_id \in UserIds
               => \A v \in UserIds \ {meta[id].user_id} :
                      \A p \in Touched(files, PatchResult(s, id, h, body).files) :
                          ~Inside(p, OwnerDir(v))

\* C14: the file a completing PATCH writes lies inside the subdirectory
\* user_<owner id> of the destination root, whatever file name the client
\* declared.
C14_FileInOwnersDirectory ==
    \A id \in DOMAIN meta, s \in Sessions, h \in HeaderValues, body \in Bodies :
        \A p \in Touched(files, PatchResult(s, id, h, body).files) :
            Inside(p, OwnerDir(meta[id].user_id))

\* name.ext for k = 0 and name_k.ext otherwise, for the name a.tif in the
\* subdirectory of the owner v
Numbered(v, k) ==
    Append(OwnerDir(v), IF k = 0 THEN "a.tif" ELSE "a_" \o ToString(k) \o ".tif")

\* C12: while an owner has completed k uploads named a.tif and k - 1 is at
\* most the largest suffix of the loop, the owner's subdirectory holds
\* exactly the k files a.tif, a_1.tif, ..., a_(k-1).tif, and the i-th of
\* them holds the content of the i-th completed upload (so no later
\* finalization has modified it).
C12_DuplicatesAreNumbered ==
    \A v \in UserIds :
        LET mine == SelectSeq(done, LAMBDA d : d.user_id = v /\ d.filename = PlainA)
        IN Len(mine) - 1 <= SuffixLimit
               => /\ \A i \in 1 .. Len(mine) :
                         /\ Numbered(v, i - 1) \in DOMAIN files
                         /\ files[Numbered(v, i - 1)] = mine[i].content
                  /\ {p \in DOMAIN files : Inside(p, OwnerDir(v))}
                         = {Numbered(v, i - 1) : i \in 1 .. Len(mine)}
\* the owner has completed as many uploads as the suffixes allow, not all
\* with the same content and not in the order of their creation
C12_Witness ==
    /\ Len(done) = SuffixLimit + 1
    /\ \E i, j \in DOMAIN done : done[i].content # done[j].content
    /\ \E i, j \in DOMAIN done : i < j /\ done[i].id > done[j].id

\* a candidate name of the record m is free
HasFreeCandidate(m) ==
    \E k \in 0 .. SuffixLimit : ~PathExists(Candidate(m, k), files, FinalizeDirs(m, dirs))

\* C13: while a candidate name of an upload is free, its finalization
\* writes to a path where no file exists: the move of a request that is
\* inside _finalize_upload, and the whole finalization of a PATCH that
\* runs without another request in between.
C13_MoveReplacesNothing ==
    /\ \A id \in DOMAIN moving :
           (id \in DOMAIN meta /\ HasFreeCandidate(meta[id]))
               => /\ moving[id] \notin DOMAIN files
                  /\ \A p \in DOMAIN files : MoveResult(id).files[p] = files[p]
    /\ \A id \in DOMAIN meta \ DOMAIN moving, body \in DupBodies :
           HasFreeCandidate(meta[id])
               => \A p \in DOMAIN files :
                      /\ p \in DOMAIN PatchResult(DupOwner, id, Hdr("0"), body).files
                      /\ PatchResult(DupOwner, id, Hdr("0"), body).files[p] = files[p]

\* C15: a PATCH whose streaming loop raises after n bytes is answered 500
\* and leaves the recorded offset and the size of the byte store as they
\* were, so that the same Upload-Offset is accepted again and finds the
\* byte store at that offset.
C15_FailedWriteChangesNothing ==
    \A s \in Sessions, id \in DOMAIN meta, h \in HeaderValues :
        \A body \in LongBodies, n \in 0 .. MaxBody :
            (Passes(s, id, h) /\ n < Len(body))
                => LET r == WriteFailsResult(s, id, h, body, n)
                   IN /\ WriteFailsStatus(s, id, h, body, n) = 500
                      /\ r.meta[id].offset = meta[id].offset
                      /\ Len(r.chunk[id]) = Len(chunk[id])
                      /\ OffsetCheck(h, r.meta[id]) = 0

\* C16: a PATCH whose finalization fails in the move (os.rename and the
\* copy fallback raise, by a failing file operation or because the
\* directory of dest_path does not exist) is answered 500, and afterwards
\* the record exists and the byte store exists with all the bytes received.
C16_FailedMoveKeepsUpload ==
    \A s \in Sessions, id \in DOMAIN meta, h \in HeaderValues, body \in Bodies :
        ReachesMove(s, id, h, body)
            => /\ \A left \in NothingLeft .. (Len(chunk[id]) + Len(body)) :
                      LET r == MoveFailsResult(s, id, h, body, left)
                      IN /\ MoveFailsStatus(s, id, h, body, left) = 500
                         /\ id \in DOMAIN r.meta
                         /\ r.meta[id].chunk_path \in DOMAIN r.chunk
                         /\ r.chunk[r.meta[id].chunk_path] = chunk[id] \o body
               /\ PatchStatus(s, id, h, body) = 500
                      => LET r == PatchResult(s, id, h, body)
                         IN /\ id \in DOMAIN r.meta
                            /\ r.meta[id].chunk_path \in DOMAIN r.chunk
                            /\ r.chunk[r.meta[id].chunk_path] = chunk[id] \o body
\* an upload whose move has failed after the copy wrote to dest_path: the
\* record and the byte store are there with every byte received
C16_Witness ==
    \E id \in DOMAIN meta :
        /\ meta[id].filename = PlainA
        /\ meta[id].offset > 0
        /\ Completes(meta[id])
        /\ files # <<>>
        /\ id \in DOMAIN chunk
        /\ Len(chunk[id]) = meta[id].offset

\* C17: for a record that a failed finalization has left complete, a PATCH
\* by the owner that claims the recorded offset is not answered 404 or
\* 409, and when it is answered 204 the record is gone and exactly one
\* file of the destination holds the content of the upload.
C17_RetriedFinalizeGivesOneFile ==
    \A id \in DOMAIN meta, s \in Sessions :
        (/\ IsOwner(s, id)
         /\ Completes(meta[id])
         /\ meta[id].filename # PyNone
         /\ Len(chunk[id]) = meta[id].offset)
            => LET h == Hdr(ToString(meta[id].offset))
                   r == PatchResult(s, id, h, <<>>)
               IN /\ PatchStatus(s, id, h, <<>>) \notin {404, 409}
                  /\ PatchStatus(s, id, h, <<>>) = 204
                         => /\ id \notin DOMAIN r.meta
                            /\ Cardinality({p \in DOMAIN r.files :
                                                r.files[p] = chunk[id]}) = 1

\* C18: when save_metadata fails, a create answered 201 has its record on
\* disk, and a PATCH answered 204 whose upload goes on has on disk a record
\* with the offset of the response.
C18_SuccessMeansSaved ==
    /\ \A s \in Sessions, h \in HeaderValues, md \in Metadatas, lost \in BOOLEAN :
           SaveFailsPostStatus(s, h, md, lost) = 201
               => nextId \in DOMAIN SaveFailsPostResult(s, h, md, lost).meta
    /\ \A s \in Sessions, id \in DOMAIN meta, h \in HeaderValues :
           \A body \in Bodies, lost \in BOOLEAN :
               (/\ SaveFailsPatchStatus(s, id, h, body, lost) = 204
                /\ ~Completes(PatchedMeta(meta[id], body)))
                   => LET r == SaveFailsPatchResult(s, id, h, body, lost)
                      IN /\ id \in DOMAIN r.meta
                         /\ ToString(r.meta[id].offset)
                                = SaveFailsPatchResponse(s, id, h, body, lost).headers["Upload-Offset"]

\* C19: a create answered 201 names in Location an identifier that no
\* record, byte store or earlier upload has, and leaves for it an empty
\* byte store and a record with offset 0, the declared length, the user id
\* of the session and the file name of the Upload-Metadata header: the
\* placeholder when it has no filename key, and what the key holds
\* otherwise (nothing, when the key comes without a value).
C19_CreateWritesRecord ==
    \A s \in Sessions, h \in HeaderValues, md \in Metadatas :
        PostStatus(s, h) = 201
            => \E id \in DOMAIN PostResult(s, h, md).meta :
                  LET r == PostResult(s, h, md)
                  IN /\ PostResponse(s, h).headers["Location"] = ToString(id)
                     /\ id \notin DOMAIN meta \cup DOMAIN chunk \cup DOMAIN ended
                     /\ r.meta[id].offset = 0
                     /\ ToString(r.meta[id].length) = h[1]
                     /\ r.meta[id].user_id = GetUserId(s)
                     /\ r.meta[id].filename
                            = (IF md = MdNone THEN Placeholder
                               ELSE IF md = MdBare THEN PyNone
                               ELSE md.name)
                     /\ r.meta[id].metadata = md
                     /\ r.meta[id].chunk_path \in DOMAIN r.chunk
                     /\ r.chunk[r.meta[id].chunk_path] = <<>>
                     /\ \A u \in DOMAIN meta : r.meta[u] = meta[u]
\* a record as create has left it, for a named file and a user with an id
C19_Witness ==
    \E id \in DOMAIN meta :
        /\ meta[id].offset = 0
        /\ meta[id].length = MaxLen
        /\ meta[id].filename = PlainA
        /\ meta[id].user_id = PyInt(1)
        /\ chunk[id] = <<>>

\* C20: a create of an authenticated session with no Upload-Length header,
\* an empty one or one that is not an integer is answered 400 and changes
\* no record and no byte store.
C20_BadLengthIs400 ==
    \A s \in Sessions, h \in {NoHdr, Hdr(""), Hdr("abc")}, md \in Metadatas :
        CheckAuth(s)
            => /\ PostStatus(s, h) = 400
               /\ PostResult(s, h, md).meta = meta
               /\ PostResult(s, h, md).chunk = chunk
               /\ PostResult(s, h, md).nextId = nextId
\* a create answered 400 has run: the destination root was made by
\* ensure_directories, and no upload has been created
C20_Witness ==
    /\ DestRoot \in dirs
    /\ nextId = 1
    /\ meta = <<>>
    /\ chunk = <<>>
    /\ files = <<>>

\* C21: a create of an authenticated session whose Upload-Length is a
\* negative integer is answered 400 and creates no record and no byte
\* store.
C21_NegativeLengthIs400 ==
    \A s \in Sessions, h \in HeaderValues, md \in Metadatas :
        (CheckAuth(s) /\ IsIntHeader(h) /\ ParseInt(h[1]) < 0)
            => /\ PostStatus(s, h) = 400
               /\ PostResult(s, h, md).meta = meta
               /\ PostResult(s, h, md).chunk = chunk

\* C22: a PATCH by the owner of an existing upload with no Upload-Offset
\* header, an empty one or one that is not an integer is answered 400 and
\* changes nothing: the body is not appended and the offset stays.
C22_BadOffsetIs400 ==
    \A id \in DOMAIN meta, s \in Sessions :
        IsOwner(s, id)
            => \A h \in {NoHdr, Hdr(""), Hdr("abc")}, body \in Bodies :
                   /\ PatchStatus(s, id, h, body) = 400
                   /\ PatchResult(s, id, h, body) = Cur
\* an upload in progress whose owner sends a body without the header
C22_Witness ==
    \E id \in DOMAIN meta, s \in Sessions :
        /\ IsOwner(s, id)
        /\ meta[id].offset > 0
        /\ meta[id].offset < meta[id].length
        /\ PatchStatus(s, id, NoHdr, <<"y">>) = 400

\* C23: a HEAD by the owner of an existing upload is answered 200 with the
\* recorded offset and length and changes nothing; of the integer values
\* of Upload-Offset a PATCH that follows passes the offset check with the
\* value HEAD returned and with no other, so that PATCH is not answered
\* 409.
C23_HeadGivesTheOffsetToResume ==
    \A id \in DOMAIN meta, s \in Sessions :
        IsOwner(s, id)
            => /\ HeadStatus(s, id) = 200
               /\ HeadResponse(s, id).headers["Upload-Offset"] = ToString(meta[id].offset)
               /\ HeadResponse(s, id).headers["Upload-Length"] = ToString(meta[id].length)
               /\ HeadResult(s, id) = Cur
               /\ \A h \in HeaderValues, body \in Bodies :
                      /\ IsIntHeader(h)
                             => (PatchStatus(s, id, h, body) # 409
                                    <=> h = Hdr(HeadResponse(s, id).headers["Upload-Offset"]))
                      /\ PatchStatus(s, id, Hdr(HeadResponse(s, id).headers["Upload-Offset"]),
                                     body) \in {204, 500}
\* an upload in progress for which a PATCH of the owner at offset 0 is
\* answered 409 and the offset HEAD returns is not 0
C23_Witness ==
    \E id \in DOMAIN meta, s \in Sessions :
        /\ IsOwner(s, id)
        /\ meta[id].offset < meta[id].length
        /\ PatchStatus(s, id, Hdr("0"), <<>>) = 409
        /\ HeadResponse(s, id).headers["Upload-Offset"] # "0"

\* identifiers a client can address: those handed out and one more
Addressable == 1 .. (MaxIds + 1)

\* C24: HEAD, PATCH and DELETE of an authenticated session on an
\* identifier without a record (never handed out, cancelled or finalized)
\* are answered 404 and change nothing: no record and no byte store is
\* made.
C24_UnknownIdIs404 ==
    \A id \in Addressable \ DOMAIN meta, s \in Sessions :
        CheckAuth(s)
            => /\ HeadStatus(s, id) = 404
               /\ HeadResult(s, id) = Cur
               /\ DeleteStatus(s, id) = 404
               /\ DeleteResult(s, id) = Cur
               /\ \A h \in HeaderValues, body \in Bodies :
                      /\ PatchStatus(s, id, h, body) = 404
                      /\ PatchResult(s, id, h, body) = Cur
\* the identifier of a finalized upload: it has no record, and its file is
\* in place
C24_Witness ==
    \E id \in DOMAIN ended :
        /\ ended[id] = "finalized"
        /\ id \notin DOMAIN meta
        /\ \E i \in DOMAIN done : done[i].id = id /\ done[i].content # <<>>

\* C25: a request changes no field but the offset of a record that exists
\* before and after it: length, owner, file name, metadata mapping and
\* chunk path stay as they are.
C25_OnlyTheOffsetChanges ==
    [][\A id \in DOMAIN meta \cap DOMAIN meta' :
           [meta'[id] EXCEPT !.offset = 0] = [meta[id] EXCEPT !.offset = 0]]_vars
\* an upload that has taken an accepted PATCH and is not complete, with
\* the fields create wrote
C25_Witness ==
    \E id \in DOMAIN meta :
        /\ sent[id] # <<>>
        /\ meta[id].offset < meta[id].length
        /\ meta[id].filename = UpA
        /\ meta[id].metadata = MdName(UpA)
        /\ meta[id].user_id = PyInt(0)
        /\ meta[id].chunk_path = id

\* the suffixes k for which name_k.ext (name.ext for k = 0) of the owner v
\* is free among the files fs and directories ds
FreeSuffixes(v, fs, ds) ==
    {k \in 0 .. SuffixLimit : ~PathExists(Numbered(v, k), fs, ds)}
\* the least element of a set of numbers
Least(S) == CHOOSE k \in S : \A j \in S : k <= j

\* C27: a PATCH that completes an upload named a.tif is answered 204,
\* removes the record and writes the bytes to the first free path of
\* a.tif, a_1.tif, ..., a_<limit>.tif and, when none of them is free, to
\* the last of them; it changes no other file.
C27_FirstFreeOrLastCandidate ==
    \A id \in DOMAIN meta, s \in Sessions, h \in HeaderValues, body \in Bodies :
        (/\ Passes(s, id, h)
         /\ meta[id].filename = PlainA
         /\ Completes(PatchedMeta(meta[id], body)))
            => LET r == PatchResult(s, id, h, body)
                   free == FreeSuffixes(meta[id].user_id, files, r.dirs)
                   to == Numbered(meta[id].user_id,
                                  IF free = {} THEN SuffixLimit ELSE Least(free))
               IN /\ PatchStatus(s, id, h, body) = 204
                  /\ id \notin DOMAIN r.meta
                  /\ id \notin DOMAIN r.chunk
                  /\ r.files = With(files, to, chunk[id] \o body)
\* an upload named a.tif has been finalized when a.tif, a_1.tif, ... up to
\* the limit were all taken: the last of them holds its content
C27_Witness ==
    /\ \E i \in DOMAIN done :
           /\ done[i].filename = PlainA
           /\ done[i].user_id = PyInt(1)
           /\ done[i].content = <<"y">>
    /\ \A k \in 0 .. SuffixLimit : Numbered(PyInt(1), k) \in DOMAIN files
    /\ \A k \in 0 .. (SuffixLimit - 1) : files[Numbered(PyInt(1), k)] = <<"x">>
    /\ files[Numbered(PyInt(1), SuffixLimit)] = <<"y">>

C29_OptionsIsFixedAndPure ==
    /\ OptionsResponse.status = 204
    /\ OptionsResponse.headers["Tus-Resumable"] = "1.0.0"
    /\ OptionsResponse.headers["Tus-Version"] = "1.0.0"
    /\ OptionsResponse.headers["Tus-Extension"] = "creation,termination"
    /\ OptionsResponse.headers["Tus-Max-Size"] = "53687091200"
    /\ OptionsResult = Cur
\* OPTIONS asked while an upload is half way: it is answered 204 and the
\* record, the bytes and the directories stay as they are
C29_Witness ==
    /\ \E id \in DOMAIN meta \cap DOMAIN chunk :
           /\ 0 < meta[id].offset
           /\ meta[id].offset < meta[id].length
           /\ Len(chunk[id]) = meta[id].offset
    /\ OptionsResponse.status = 204
    /\ OptionsResult = Cur

\* C30: for a record without owner, HEAD, PATCH and DELETE of an
\* authenticated session are not answered 403, whatever user id the
\* session resolves to.
C30_NoOwnerNo403 ==
    \A id \in DOMAIN meta, s \in Sessions :
        (CheckAuth(s) /\ meta[id].user_id = PyNone)
            => /\ HeadStatus(s, id) = 200
               /\ DeleteStatus(s, id) = 204
               /\ \A h \in HeaderValues, body \in Bodies :
                      PatchStatus(s, id, h, body) # 403
\* a record without owner that a session of user 1 has extended
C30_Witness ==
    \E id \in DOMAIN meta, s \in Sessions :
        /\ meta[id].user_id = PyNone
        /\ meta[id].offset > 0
        /\ CheckAuth(s)
        /\ GetUserId(s) = PyInt(1)
        /\ HeadStatus(s, id) = 200

\* C26: for every sequence of pairs with distinct keys that a client
\* writes into the Upload-Metadata header as comma-separated items
\* "key base64(value)" (a bare key as "key"), the record made by a create
\* answered 201 maps each key to its original value, a bare key to None,
\* and has the original value of filename as its file name.
C26_MetadataRoundTrip ==
    \A s \in Sessions, ps \in PairSeqs :
        PostStatus(s, MetaLength) = 201
            => LET r == PostHeaderResult(s, MetaLength, EncodeMetadata(ps))
               IN \A id \in DOMAIN r.meta \ DOMAIN meta :
                      /\ DOMAIN r.meta[id].metadata = {ps[i].key : i \in 1 .. Len(ps)}
                      /\ \A i \in 1 .. Len(ps) :
                             /\ r.meta[id].metadata[ps[i].key] = ps[i].value
                             /\ ps[i].key = Filename
                                    => r.meta[id].filename = ps[i].value

\* C31: an import request that reaches process_files (items selected, a
\* group the user is a member of) and has a destination of a type other
\* than screens, Screen, datasets, Dataset, at any place among its
\* destinations, is answered 500 and creates no upload order.
C31_BadDestinationCreatesNoOrder ==
    \A c \in Conns, b \in ImportBodies \ {InvalidJson} :
        (/\ b.selectedLocal # <<>>
         /\ b.group \in c.groups
         /\ \E j \in 1 .. Len(b.selectedOmero) : ~KnownType(b.selectedOmero[j][1]))
            => /\ ImportStatus(c, b) = 500
               /\ ImportResult(c, b) = orders
\* after an import that created two orders, a request whose second
\* destination is of unknown type is answered 500
C31_Witness ==
    /\ Len(orders) = 2
    /\ \E c \in Conns :
           ImportStatus(c, [selectedLocal |-> <<Item("file.txt", ".txt", NoUuid)>>,
                            selectedOmero |-> <<<<"datasets", 1>>, <<"weird", 1>>>>,
                            group |-> "grp1"]) = 500

\* C32: a POST of group mappings by a non-administrator is answered 403
\* and leaves the mappings files as they are, and from a POST answered 200
\* on, every GET of the same view returns the mappings that POST carried,
\* until the next POST answered 200.
C32_MappingsAdminOnlyAndRoundTrip ==
    /\ \A v \in Views, c \in Conns, b \in MappingBodies :
           ~c.admin => /\ MappingsPostStatus(v, c, b) = 403
                       /\ MappingsPostResult(v, c, b) = mappings
    /\ \A v \in Views :
           posted[v] # Absent
               => /\ MappingsGetResponse(v).status = 200
                  /\ MappingsGetResponse(v).mappings = posted[v]
\* an administrator has posted the two mappings of the test and a GET
\* returns them
C32_Witness ==
    \E v \in Views :
        /\ posted[v] = JsonObject([g1 |-> "labA", g2 |-> "labB"])
        /\ MappingsGetResponse(v).mappings = JsonObject([g1 |-> "labA", g2 |-> "labB"])

\* the Upload-Offset a PATCH that has saved its record claimed
Claimed(r) == r.m.offset - Len(r.body)
\* two PATCH requests on one upload that claimed the same offset, carried
\* bytes and were both answered 204, with no other PATCH or DELETE
BothAccepted(i, j) ==
    /\ i < j
    /\ \A k \in 1 .. Len(reqs) : k \in {i, j} \/ reqs[k].verb = "POST"
    /\ reqs[i].verb = "PATCH" /\ reqs[j].verb = "PATCH"
    /\ reqs[i].id = reqs[j].id
    /\ reqs[i].status = 204 /\ reqs[j].status = 204
    /\ reqs[i].body # <<>> /\ reqs[j].body # <<>>
    /\ Claimed(reqs[i]) = Claimed(reqs[j])

\* C33: when two PATCH requests on the same upload that claim the same
\* offset have both passed the offset check and both been answered 204,
\* no other request has touched the upload, and it still has its record
\* and byte store, then the size of the byte store differs from the
\* recorded offset; such a state is reached.
C33_TwoAtOneOffsetCorrupt ==
    \A i, j \in 1 .. Len(reqs) :
        (/\ BothAccepted(i, j)
         /\ reqs[i].id \in DOMAIN meta \cap DOMAIN chunk)
            => Len(chunk[reqs[i].id]) # meta[reqs[i].id].offset
\* both requests claimed offset 0 of an upload of two bytes, both were
\* answered 204: the byte store holds two bytes, the record says one
C33_Witness ==
    \E i, j \in 1 .. Len(reqs) :
        /\ BothAccepted(i, j)
        /\ reqs[i].id \in DOMAIN meta \cap DOMAIN chunk
        /\ Len(chunk[reqs[i].id]) = 2
        /\ meta[reqs[i].id].offset = 1

\* C34: an upload that a DELETE answered 204 has cancelled, or whose
\* finalization has completed, has no record and no byte store in any
\* later state, whatever requests were in progress on it.
C34_EndedStaysGone ==
    \A id \in DOMAIN ended : id \notin DOMAIN meta /\ id \notin DOMAIN chunk

\* the destination paths the requests on id have moved or copied its byte
\* store to
MovedTo(id) ==
    {reqs[i].dest : i \in {k \in 1 .. Len(reqs) :
                              /\ reqs[k].verb = "PATCH"
                              /\ reqs[k].id = id
                              /\ reqs[k].pc \in {"moved", "copied", "removed"}}}
\* C35: under every interleaving of the requests on an upload, its
\* finalizations put bytes at no more than one path of the destination
\* tree.
C35_OneDestinationFile ==
    \A id \in Ids : Cardinality(MovedTo(id)) <= 1

\* C36: in every state, between the file operations of create, cancel and
\* finalize as well, an upload that has a record has its byte store at the
\* recorded chunk path.
C36_RecordHasByteStore ==
    \A id \in DOMAIN meta : meta[id].chunk_path \in DOMAIN chunk

\* C37: from the start of a finalization on, after each of its file
\* operations, by os.rename or by the copy and remove of the fallback, the
\* bytes the upload has received are whole at the chunk path or at the
\* destination path, and when the record is gone they are at the
\* destination path.
C37_ContentNeverLost ==
    \A i \in 1 .. Len(reqs) :
        (/\ reqs[i].verb = "PATCH"
         /\ reqs[i].pc \in {"saved", "chosen", "fallback", "copied", "moved", "removed"})
            => LET r == reqs[i]
                   AtChunk == /\ r.m.chunk_path \in DOMAIN chunk
                              /\ chunk[r.m.chunk_path] = sent[r.id]
                   AtDest == /\ r.dest \in DOMAIN files
                             /\ files[r.dest] = sent[r.id]
               IN /\ AtChunk \/ AtDest
                  /\ r.id \notin DOMAIN meta => AtDest
\* a finalization by the fallback has copied two bytes and removed the byte
\* store, and has not yet deleted the record
C37_Witness ==
    \E i \in 1 .. Len(reqs) :
        /\ At(i, "PATCH", "removed")
        /\ Len(sent[reqs[i].id]) = 2
        /\ reqs[i].id \in DOMAIN meta
        /\ files[reqs[i].dest] = sent[reqs[i].id]

\* the principal of the session s may query, extend and cancel the upload
\* with the record m: it created it, or the record has no owner
Authorized(s, m) ==
    CheckAuth(s) /\ (m.user_id = PyNone \/ GetUserId(s) = m.user_id)
\* the upload id has the same record and the same byte store in the state r
\* as now
Untouched(r, id) ==
    /\ id \in DOMAIN r.meta
    /\ r.meta[id] = meta[id]
    /\ (id \in DOMAIN r.chunk) = (id \in DOMAIN chunk)
    /\ id \in DOMAIN chunk => r.chunk[id] = chunk[id]

\* C38: whatever request comes next, the record and the byte store of an
\* upload are changed by it only when it is a PATCH or DELETE addressed to
\* that upload by an authorized principal that passes the checks of the
\* handler; create, OPTIONS, HEAD and every request addressed to another
\* identifier leave them as they were, so the upload stays with its offset.
C38_ChangedOnlyByOwnRequest ==
    \A id \in DOMAIN meta :
        /\ Untouched(OptionsResult, id)
        /\ \A s \in Sessions, h \in HeaderValues, md \in Metadatas :
               Untouched(PostResult(s, h, md), id)
        /\ \A s \in Sessions, t \in Addressable \cup {NoId} :
               /\ Untouched(HeadResult(s, t), id)
               /\ ~Untouched(DeleteResult(s, t), id)
                      => /\ t = id
                         /\ Authorized(s, meta[id])
                         /\ DeleteStatus(s, t) = 204
               /\ \A h \in HeaderValues, body \in Bodies :
                      ~Untouched(PatchResult(s, t, h, body), id)
                          => /\ t = id
                             /\ Authorized(s, meta[id])
                             /\ Precheck(s, t) = 0
                             /\ OffsetCheck(h, meta[id]) = 0

\* the upload id has been finalized: its record is gone and a file with
\* the bytes it moved is in the destination directory of its owner
Finalized(id) ==
    /\ id \notin DOMAIN meta
    /\ id \in DOMAIN ended
    /\ ended[id] = "finalized"
    /\ \E k \in 1 .. Len(done) :
           /\ done[k].id = id
           /\ \E p \in DOMAIN files :
                  /\ Inside(p, OwnerDir(done[k].user_id))
                  /\ files[p] = done[k].content

\* C39: an upload whose owner keeps asking HEAD for the offset and sending
\* remaining bytes by PATCH from that offset, with no cancel and no failing
\* file operation, is finalized in the end, whatever its declared length
\* and whatever the sizes of the bodies: the record is removed and the file
\* is in the owner's destination directory.
C39_EveryUploadCompletes ==
    \A id \in Ids : (id \in DOMAIN meta) ~> Finalized(id)
====
